---- MODULE Spec2Model ----
(***************************************************************************)
(* Model of the dipole element of cheetah (src/cheetah/accelerator/        *)
(* dipole.py): construction, the curvature hx, the tracking dispatch, the  *)
(* linear transfer-map builder, the Bmad-X particle integrator and         *)
(* broadcast.                                                              *)
(*                                                                         *)
(* Real numbers.  A tensor element is modelled exactly, as a polynomial    *)
(* with rational coefficients over opaque atoms.  An atom is the value of  *)
(* a transcendental function at an argument where it has no rational       *)
(* value, e.g. "cos(1/2)"; sin, cos, tan, sqrt are evaluated exactly where *)
(* their value is rational (sin 0, cos 0, the multiples of pi/2, perfect   *)
(* squares).  Two model values that are equal are equal real numbers.  A   *)
(* non-finite float (NaN, +Inf, -Inf) is the one value NaN, which every    *)
(* arithmetic operation propagates, as IEEE arithmetic does for NaN.       *)
(* Energies and momenta are in units of the electron rest energy.          *)
(***************************************************************************)
EXTENDS Bags, FiniteSets, Integers, Sequences, TLC

(***************************************************************************)
(* Rational numbers <<n, d>>, d > 0, in lowest terms.                      *)
(***************************************************************************)
Abs(n) == IF n < 0 THEN -n ELSE n

RECURSIVE GCD(_, _)
GCD(a, b) == IF b = 0 THEN a ELSE GCD(b, a % b)

Rat(n, d) ==
    LET s == IF d < 0 THEN -1 ELSE 1
        g == GCD(Abs(n), Abs(d))
    IN  <<(s * n) \div g, (s * d) \div g>>

RAdd(a, b) == Rat(a[1] * b[2] + b[1] * a[2], a[2] * b[2])
RMul(a, b) == Rat(a[1] * b[1], a[2] * b[2])
RInv(a) == Rat(a[2], a[1])

(***************************************************************************)
(* Polynomials: a function from monomials (bags of atoms) to non-zero      *)
(* rational coefficients.  The empty bag is the constant monomial.         *)
(***************************************************************************)
Zero == [m \in {} |-> <<0, 1>>]
Const(r) == IF r[1] = 0 THEN Zero ELSE [m \in {EmptyBag} |-> r]
Num(n) == Const(<<n, 1>>)
Frac(n, d) == Const(Rat(n, d))
One == Num(1)
Atom(name) == [m \in {SetToBag({name})} |-> <<1, 1>>]
NaN == Atom("nan")
Pi == Atom("pi")

IsNaN(p) == p = NaN
IsConst(p) == p = Zero \/ DOMAIN p = {EmptyBag}
ConstOf(p) == IF p = Zero THEN <<0, 1>> ELSE p[EmptyBag]

Coef(p, m) == IF m \in DOMAIN p THEN p[m] ELSE <<0, 1>>

PAdd(p, q) ==
    IF IsNaN(p) \/ IsNaN(q) THEN NaN
    ELSE IF p = Zero THEN q
    ELSE IF q = Zero THEN p
    ELSE LET D == DOMAIN p \cup DOMAIN q
             nz == {m \in D : RAdd(Coef(p, m), Coef(q, m))[1] # 0}
         IN  [m \in nz |-> RAdd(Coef(p, m), Coef(q, m))]

PScale(r, p) ==
    IF IsNaN(p) THEN NaN
    ELSE IF r[1] = 0 THEN Zero
    ELSE [m \in DOMAIN p |-> RMul(r, p[m])]

PNeg(p) == PScale(<<-1, 1>>, p)
PSub(p, q) == PAdd(p, PNeg(q))

RECURSIVE RSumProd(_, _, _)
RSumProd(pairs, p, q) ==
    IF pairs = {} THEN <<0, 1>>
    ELSE LET pr == CHOOSE x \in pairs : TRUE
         IN  RAdd(RMul(p[pr[1]], q[pr[2]]), RSumProd(pairs \ {pr}, p, q))

PMul(p, q) ==
    IF IsNaN(p) \/ IsNaN(q) THEN NaN
    ELSE IF p = Zero \/ q = Zero THEN Zero
    ELSE IF p = One THEN q
    ELSE IF q = One THEN p
    ELSE LET pairs == (DOMAIN p) \X (DOMAIN q)
             monos == {pr[1] (+) pr[2] : pr \in pairs}
             c(m) == RSumProd({pr \in pairs : pr[1] (+) pr[2] = m}, p, q)
             nz == {m \in monos : c(m)[1] # 0}
         IN  [m \in nz |-> c(m)]

PSq(p) == PMul(p, p)

\* The text of a value, for the name of an atom: equal values have equal
\* texts.
RECURSIVE MonoStr(_)
MonoStr(m) ==
    IF m = EmptyBag THEN ""
    ELSE LET a == CHOOSE u \in DOMAIN m : TRUE
         IN  "*" \o a \o (IF m[a] = 1 THEN "" ELSE "^" \o ToString(m[a]))
                 \o MonoStr([u \in DOMAIN m \ {a} |-> m[u]])

RatStr(r) ==
    ToString(r[1]) \o (IF r[2] = 1 THEN "" ELSE "/" \o ToString(r[2]))

RECURSIVE PolyStr(_)
PolyStr(p) ==
    IF p = Zero THEN ""
    ELSE LET m == CHOOSE u \in DOMAIN p : TRUE
             rest == [u \in DOMAIN p \ {m} |-> p[u]]
         IN  RatStr(p[m]) \o MonoStr(m)
                 \o (IF rest = Zero THEN "" ELSE " + " \o PolyStr(rest))

ArgStr(p) == IF p = Zero THEN "0" ELSE PolyStr(p)

Fn(name, p) == Atom(name \o "(" \o ArgStr(p) \o ")")

\* p / q.  Division by zero gives a non-finite float.
PDiv(p, q) ==
    IF IsNaN(p) \/ IsNaN(q) \/ q = Zero THEN NaN
    ELSE IF IsConst(q) THEN PScale(RInv(ConstOf(q)), p)
    ELSE IF p = q THEN One
    ELSE PMul(p, Fn("inv", q))

\* p = (k/2) * pi for an integer k: the quarter turns, where sin and cos are
\* integers.
IsQuarterTurns(p) ==
    /\ ~IsNaN(p)
    /\ DOMAIN p = {SetToBag({"pi"})}
    /\ RMul(<<2, 1>>, p[SetToBag({"pi"})])[2] = 1
QuarterTurns(p) == RMul(<<2, 1>>, p[SetToBag({"pi"})])[1]

Sin(p) ==
    IF IsNaN(p) THEN NaN
    ELSE IF p = Zero THEN Zero
    ELSE IF IsQuarterTurns(p)
    THEN Num(CASE QuarterTurns(p) % 4 = 0 -> 0
               [] QuarterTurns(p) % 4 = 1 -> 1
               [] QuarterTurns(p) % 4 = 2 -> 0
               [] QuarterTurns(p) % 4 = 3 -> -1)
    ELSE Fn("sin", p)

Cos(p) ==
    IF IsNaN(p) THEN NaN
    ELSE IF p = Zero THEN One
    ELSE IF IsQuarterTurns(p)
    THEN Num(CASE QuarterTurns(p) % 4 = 0 -> 1
               [] QuarterTurns(p) % 4 = 1 -> 0
               [] QuarterTurns(p) % 4 = 2 -> -1
               [] QuarterTurns(p) % 4 = 3 -> 0)
    ELSE Fn("cos", p)

Tan(p) ==
    IF IsNaN(p) THEN NaN
    ELSE IF p = Zero THEN Zero
    ELSE Fn("tan", p)

\* The integer square root of n >= 0, or -1 when n is no perfect square.
ISqrt(n) ==
    IF \E k \in 0..n : k * k = n THEN CHOOSE k \in 0..n : k * k = n ELSE -1

Sqrt(p) ==
    IF IsNaN(p) THEN NaN
    ELSE IF IsConst(p)
    THEN LET r == ConstOf(p)
         IN  IF r[1] < 0 THEN NaN
             ELSE IF ISqrt(r[1]) >= 0 /\ ISqrt(r[2]) >= 0
             THEN Frac(ISqrt(r[1]), ISqrt(r[2]))
             ELSE Fn("sqrt", p)
    ELSE Fn("sqrt", p)

\* cosh, sinh: cos and sin at an imaginary argument (the real part).
Cosh(p) ==
    IF IsNaN(p) THEN NaN
    ELSE IF p = Zero THEN One
    ELSE Fn("cosh", p)

Sinh(p) ==
    IF IsNaN(p) THEN NaN
    ELSE IF p = Zero THEN Zero
    ELSE Fn("sinh", p)

\* The sign of a rational constant: -1, 0 or 1.
Sign(p) == IF ConstOf(p)[1] < 0 THEN -1 ELSE IF ConstOf(p)[1] = 0 THEN 0 ELSE 1

Fn2(name, p, q) == Atom(name \o "(" \o ArgStr(p) \o ", " \o ArgStr(q) \o ")")

HalfPi == PScale(<<1, 2>>, Pi)

\* p = c + q * pi with rational c and q: the values whose sign is decided
\* here, with 333/106 < pi < 355/113.
InPiSpan(p) == ~IsNaN(p) /\ DOMAIN p \subseteq {EmptyBag, SetToBag({"pi"})}
PiCoef(p) == Coef(p, SetToBag({"pi"}))
SignWith(p, piApprox) == RAdd(Coef(p, EmptyBag), RMul(PiCoef(p), piApprox))[1]
IsPos(p) == SignWith(p, <<333, 106>>) > 0 /\ SignWith(p, <<355, 113>>) > 0
IsNeg(p) == SignWith(p, <<333, 106>>) < 0 /\ SignWith(p, <<355, 113>>) < 0

\* torch.abs
PAbs(p) ==
    IF IsNaN(p) THEN NaN
    ELSE IF InPiSpan(p) THEN (IF IsNeg(p) THEN PNeg(p) ELSE p)
    ELSE Fn("abs", p)

\* The mask p < q as a float: 1 or 0 (0 when an operand is NaN); an atom when
\* the order of the two values is not decided here.
Lt(p, q) ==
    IF IsNaN(p) \/ IsNaN(q) THEN Zero
    ELSE IF InPiSpan(PSub(q, p)) THEN (IF IsPos(PSub(q, p)) THEN One ELSE Zero)
    ELSE Fn2("lt", p, q)

\* The mask p >= q as a float.
Ge(p, q) ==
    IF IsNaN(p) \/ IsNaN(q) THEN Zero
    ELSE PSub(One, Lt(p, q))

\* torch.arcsin
Arcsin(p) ==
    IF IsNaN(p) THEN NaN
    ELSE IF p = Zero THEN Zero
    ELSE IF p = One THEN HalfPi
    ELSE IF p = Num(-1) THEN PNeg(HalfPi)
    ELSE IF p = Frac(1, 2) THEN PScale(<<1, 6>>, Pi)
    ELSE IF p = Frac(-1, 2) THEN PScale(<<-1, 6>>, Pi)
    ELSE IF IsConst(p) /\ Abs(ConstOf(p)[1]) > ConstOf(p)[2] THEN NaN
    ELSE Fn("arcsin", p)

\* torch.arctan2(y, x)
Arctan2(y, x) ==
    IF IsNaN(y) \/ IsNaN(x) THEN NaN
    ELSE IF IsConst(y) /\ IsConst(x) /\ (y = Zero \/ x = Zero)
    THEN (IF x = Zero
          THEN (IF y = Zero THEN Zero
                ELSE IF Sign(y) > 0 THEN HalfPi ELSE PNeg(HalfPi))
          ELSE (IF Sign(x) > 0 THEN Zero ELSE Pi))
    ELSE Fn2("arctan2", y, x)

(***************************************************************************)
(* 7x7 matrices and 7-vectors over the polynomials, indexed 0..6 as in the *)
(* source.  Eager makes TLC evaluate a function value once instead of at   *)
(* every application.                                                      *)
(***************************************************************************)
Idx == 0..6

Eager(f) == IF f = f THEN f ELSE f

eye == Eager([i \in Idx |-> [j \in Idx |-> IF i = j THEN One ELSE Zero]])

Sum7(t) ==
    PAdd(t[0], PAdd(t[1], PAdd(t[2], PAdd(t[3], PAdd(t[4], PAdd(t[5], t[6]))))))

matmul(A, B) ==
    LET a == Eager(A)
        b == Eager(B)
    IN  Eager([i \in Idx |-> [j \in Idx |->
            Sum7([k \in Idx |-> PMul(a[i][k], b[k][j])])]])

transpose(A) == Eager([i \in Idx |-> [j \in Idx |-> A[j][i]]])

\* A matrix applied to a column vector.
matvec(A, v) ==
    LET a == Eager(A)
    IN  Eager([i \in Idx |-> Sum7([k \in Idx |-> PMul(a[i][k], v[k])])])

(***************************************************************************)
(* Batched tensors: a sequence with one value per batch slot.  A tensor of *)
(* one slot broadcasts against a longer one.                               *)
(***************************************************************************)
At(t, i) == IF Len(t) = 1 THEN t[1] ELSE t[i]
Max(a, b) == IF a >= b THEN a ELSE b
Broadcastable(a, b) == a = b \/ a = 1 \/ b = 1
zeros_like(t) == [i \in 1..Len(t) |-> Zero]
\* torch.Tensor.repeat((n,)) of a one-dimensional tensor: n copies, tiled.
repeat(t, n) == [i \in 1..(n * Len(t)) |-> t[((i - 1) % Len(t)) + 1]]

(***************************************************************************)
(* The shared linear optics: the routines of cheetah.track_methods and the *)
(* drift and quadrupole elements the dipole is compared with.              *)
(***************************************************************************)
\* Rest energy of the electron, the unit of energy of the model.
electron_mass_eV == One

\* cos(sqrt(k2 + 0j) * length).real
ccos(k2, length) ==
    IF IsNaN(k2) \/ IsNaN(length) THEN NaN
    ELSE IF ~IsConst(k2) THEN Fn("ccos", PMul(k2, PSq(length)))
    ELSE IF Sign(k2) = 0 THEN One
    ELSE IF Sign(k2) > 0 THEN Cos(PMul(Sqrt(k2), length))
    ELSE Cosh(PMul(Sqrt(PNeg(k2)), length))

\* (sin(sqrt(k2 + 0j) * length) / sqrt(k2 + 0j)).real, for k2 # 0
csin_over_k(k2, length) ==
    IF IsNaN(k2) \/ IsNaN(length) THEN NaN
    ELSE IF ~IsConst(k2) THEN Fn("csin_over_k", PMul(k2, PSq(length)))
    ELSE IF Sign(k2) > 0 THEN PDiv(Sin(PMul(Sqrt(k2), length)), Sqrt(k2))
    ELSE PDiv(Sinh(PMul(Sqrt(PNeg(k2)), length)), Sqrt(PNeg(k2)))

\* rotation_matrix(angle): rotates the (x, y) and the (px, py) planes jointly.
rotation_matrix(angle) ==
    LET cs == Cos(angle)
        sn == Sin(angle)
    IN  Eager([eye EXCEPT ![0][0] = cs, ![0][2] = sn,
                          ![1][1] = cs, ![1][3] = sn,
                          ![2][0] = PNeg(sn), ![2][2] = cs,
                          ![3][1] = PNeg(sn), ![3][3] = cs])

\* 1 / gamma^2 of a beam of the given energy.
igamma2_of(energy) ==
    IF PDiv(energy, electron_mass_eV) # Zero
    THEN PDiv(One, PSq(PDiv(energy, electron_mass_eV)))
    ELSE Zero

\* The matrix of a combined bend and quadrupole, from the focusing terms.
rmatrix_R(length, hx, kx2, beta, igamma2, cx, cy, sx, sy, ky2) ==
    LET dx == IF kx2 # Zero
              THEN PMul(PDiv(hx, kx2), PSub(One, cx))
              ELSE PDiv(PMul(PSq(length), hx), Num(2))
        r56 == IF kx2 # Zero
               THEN PDiv(PDiv(PMul(PSq(hx), PSub(length, sx)), kx2), PSq(beta))
               ELSE PDiv(PDiv(PMul(PSq(hx), PMul(length, PSq(length))), Num(6)),
                         PSq(beta))
    IN  Eager([eye EXCEPT
            ![0][0] = cx, ![0][1] = sx, ![0][5] = PDiv(dx, beta),
            ![1][0] = PNeg(PMul(kx2, sx)), ![1][1] = cx,
            ![1][5] = PDiv(PMul(sx, hx), beta),
            ![2][2] = cy, ![2][3] = sy,
            ![3][2] = PNeg(PMul(ky2, sy)), ![3][3] = cy,
            ![4][0] = PDiv(PMul(sx, hx), beta), ![4][1] = PDiv(dx, beta),
            ![4][5] = PSub(r56, PMul(PDiv(length, PSq(beta)), igamma2))])

\* The focusing terms cx, cy, sx, sy of the strengths kx2 and ky2.
rmatrix_k(length, hx, kx2, ky2, igamma2) ==
    rmatrix_R(length, hx, kx2, Sqrt(PSub(One, igamma2)), igamma2,
              ccos(kx2, length), ccos(ky2, length),
              IF kx2 # Zero THEN csin_over_k(kx2, length) ELSE length,
              IF ky2 # Zero THEN csin_over_k(ky2, length) ELSE length, ky2)

\* Rotation of a transfer matrix by the tilt of the element.
rmatrix_tilted(R, tilt) ==
    IF tilt # Zero
    THEN matmul(matmul(rotation_matrix(PNeg(tilt)), R), rotation_matrix(tilt))
    ELSE R

\* base_rmatrix(length, k1, hx, tilt, energy): the combined bend and
\* quadrupole transfer matrix of one batch slot.
base_rmatrix(length, k1, hx, tilt, energy) ==
    rmatrix_tilted(rmatrix_k(length, hx, PAdd(k1, PSq(hx)), PNeg(k1),
                             igamma2_of(energy)),
                   tilt)

\* The transfer matrix of a drift section.
Drift_transfer_map(length, energy) ==
    Eager([eye EXCEPT
        ![0][1] = length, ![2][3] = length,
        ![4][5] = PNeg(PMul(PDiv(length,
                                 PSq(Sqrt(PSub(One, igamma2_of(energy))))),
                            igamma2_of(energy)))])

\* Quadrupole.transfer_map: the matrix of a bend of no curvature.
Quadrupole_transfer_map(length, k1, energy) ==
    rmatrix_k(length, Zero, PAdd(k1, PSq(Zero)), PNeg(k1), igamma2_of(energy))

(***************************************************************************)
(* The dipole element.                                                     *)
(***************************************************************************)
\* UniqueNameGenerator.__call__: the name made from the counter; the counter
\* is then incremented.
UniqueNameGenerator_call(prefix, counter) ==
    [name |-> prefix \o "_" \o ToString(counter), counter |-> counter + 1]

\* Element.__init__(name): the given name, or a generated one.
Element_init(args, counter) ==
    IF "name" \in DOMAIN args
    THEN [name |-> args.name, counter |-> counter]
    ELSE UniqueNameGenerator_call("unnamed_element", counter)

\* A keyword argument, or its default when it is not given (None).
Opt(args, key, default) == IF key \in DOMAIN args THEN args[key] ELSE default

\* A constructor whose exit values default to zeros, as the other fields do.
Dipole_init_exit_zeros(args, counter) ==
    LET named == Element_init(args, counter)
        length == args.length
    IN  [self |->
            [length |-> length,
             p0c |-> Opt(args, "p0c", zeros_like(length)),
             angle |-> Opt(args, "angle", zeros_like(length)),
             k1 |-> Opt(args, "k1", zeros_like(length)),
             e1 |-> Opt(args, "e1", zeros_like(length)),
             e2 |-> Opt(args, "e2", zeros_like(length)),
             fringe_integral |-> Opt(args, "fringe_integral", zeros_like(length)),
             fringe_integral_exit |->
                 Opt(args, "fringe_integral_exit", zeros_like(length)),
             gap |-> Opt(args, "gap", zeros_like(length)),
             gap_exit |-> Opt(args, "gap_exit", zeros_like(length)),
             tilt |-> Opt(args, "tilt", zeros_like(length)),
             fringe_at |-> Opt(args, "fringe_at", "both_ends"),
             fringe_type |-> Opt(args, "fringe_type", "linear_edge"),
             tracking_method |-> Opt(args, "tracking_method", "cheetah"),
             name |-> named.name,
             device |-> Opt(args, "device", "cpu"),
             dtype |-> Opt(args, "dtype", "float32")],
         counter |-> named.counter]

\* Dipole.__init__: args holds the keyword arguments that are given.  The
\* result is the new element and the name counter after the call.
Dipole_init(args, counter) ==
    LET named == Element_init(args, counter)
        length == args.length
        fringe_integral == Opt(args, "fringe_integral", zeros_like(length))
        gap == Opt(args, "gap", zeros_like(length))
    IN  [self |->
            [length |-> length,
             p0c |-> Opt(args, "p0c", zeros_like(length)),
             angle |-> Opt(args, "angle", zeros_like(length)),
             k1 |-> Opt(args, "k1", zeros_like(length)),
             e1 |-> Opt(args, "e1", zeros_like(length)),
             e2 |-> Opt(args, "e2", zeros_like(length)),
             fringe_integral |-> fringe_integral,
             fringe_integral_exit |->
                 IF "fringe_integral_exit" \notin DOMAIN args
                 THEN fringe_integral
                 ELSE args.fringe_integral_exit,
             gap |-> gap,
             gap_exit |->
                 IF "gap_exit" \in DOMAIN args
                 THEN args.gap_exit
                 ELSE [i \in 1..Len(gap) |-> PMul(One, gap[i])],
             tilt |-> Opt(args, "tilt", zeros_like(length)),
             fringe_at |-> Opt(args, "fringe_at", "both_ends"),
             fringe_type |-> Opt(args, "fringe_type", "linear_edge"),
             tracking_method |-> Opt(args, "tracking_method", "cheetah"),
             name |-> named.name,
             device |-> Opt(args, "device", "cpu"),
             dtype |-> Opt(args, "dtype", "float32")],
         counter |-> named.counter]

\* An assignment that is lost: the element keeps the old tensor.
setattr_lost(self, field, value) == self

\* self.field = value: the buffer of that name is replaced.
setattr(self, field, value) == [self EXCEPT ![field] = value]

\* Dipole.hx without the test of the length: the quotient in every slot.
hx_unguarded(self) ==
    [i \in 1..Len(self.length) |-> PDiv(self.angle[i], self.length[i])]

\* Dipole.hx, one value per batch slot.
hx(self) ==
    [i \in 1..Len(self.length) |->
        IF self.length[i] # Zero
        THEN PDiv(self.angle[i], self.length[i])
        ELSE Zero]

\* Dipole.is_skippable
is_skippable(self) == self.tracking_method = "cheetah"

\* Dipole.is_active
is_active(self) == \E i \in 1..Len(self.angle) : self.angle[i] # Zero

\* Dipole._transfer_map_enter, one matrix per batch slot.
transfer_map_enter(self) ==
    [i \in 1..Len(self.length) |->
        LET sec_e == PDiv(One, Cos(self.e1[i]))
            phi == PMul(self.fringe_integral[i],
                   PMul(hx(self)[i],
                   PMul(self.gap[i],
                   PMul(sec_e, PAdd(One, PSq(Sin(self.e1[i])))))))
        IN  Eager([eye EXCEPT
                ![1][0] = PMul(hx(self)[i], Tan(self.e1[i])),
                ![3][2] = PMul(PNeg(hx(self)[i]), Tan(PSub(self.e1[i], phi)))])]

\* Dipole._transfer_map_exit, one matrix per batch slot.
transfer_map_exit(self) ==
    [i \in 1..Len(self.length) |->
        LET sec_e == PDiv(One, Cos(self.e2[i]))
            phi == PMul(self.fringe_integral_exit[i],
                   PMul(hx(self)[i],
                   PMul(self.gap[i],
                   PMul(sec_e, PAdd(One, PSq(Sin(self.e2[i])))))))
        IN  Eager([eye EXCEPT
                ![1][0] = PMul(hx(self)[i], Tan(self.e2[i])),
                ![3][2] = PMul(PNeg(hx(self)[i]), Tan(PSub(self.e2[i], phi)))])]

\* The body map taken from the thin-kick branch whatever the lengths are.
transfer_map_body_thin(self, energy) ==
    [i \in 1..Max(Len(self.length), Len(energy)) |->
        Eager([eye EXCEPT ![0][1] = At(self.length, i),
                          ![2][6] = At(self.angle, i),
                          ![2][3] = At(self.length, i)])]

\* The body map with the quadrupole strength left out of the call.
transfer_map_body_no_k1(self, energy) ==
    [i \in 1..Max(Len(self.length), Len(energy)) |->
        base_rmatrix(At(self.length, i), Zero, At(hx(self), i), Zero,
                     At(energy, i))]

\* The body map chosen slot by slot: the thin kick in the slots of length 0.
transfer_map_body_per_slot(self, energy) ==
    [i \in 1..Max(Len(self.length), Len(energy)) |->
        IF At(self.length, i) # Zero
        THEN base_rmatrix(At(self.length, i), At(self.k1, i), At(hx(self), i),
                          Zero, At(energy, i))
        ELSE Eager([eye EXCEPT ![0][1] = At(self.length, i),
                               ![2][6] = At(self.angle, i),
                               ![2][3] = At(self.length, i)])]

\* The body map of Dipole.transfer_map, one matrix per slot of the batch shape
\* that the element and the energy broadcast to.
transfer_map_body(self, energy) ==
    LET n == Max(Len(self.length), Len(energy))
    IN  IF \E i \in 1..Len(self.length) : self.length[i] # Zero
        THEN [i \in 1..n |->
                base_rmatrix(At(self.length, i), At(self.k1, i), At(hx(self), i),
                             Zero, At(energy, i))]
        ELSE [i \in 1..n |->
                Eager([eye EXCEPT ![0][1] = At(self.length, i),
                                  ![2][6] = At(self.angle, i),
                                  ![2][3] = At(self.length, i)])]

\* A transfer map that multiplies in the fringe maps of the ends fringe_at
\* names only.
transfer_map_at_fringe_ends(self, energy) ==
    LET n == Max(Len(self.length), Len(energy))
        R_enter == transfer_map_enter(self)
        R_exit == transfer_map_exit(self)
        body == transfer_map_body(self, energy)
    IN  [i \in 1..n |->
            LET R == matmul(IF self.fringe_at \in {"exit_end", "both_ends"}
                            THEN At(R_exit, i) ELSE eye,
                            matmul(body[i],
                                   IF self.fringe_at
                                          \in {"entrance_end", "both_ends"}
                                   THEN At(R_enter, i) ELSE eye))
            IN  matmul(rotation_matrix(PNeg(At(self.tilt, i))),
                       matmul(R, rotation_matrix(At(self.tilt, i))))]

\* A transfer map with the fringe maps in the opposite order.
transfer_map_reversed(self, energy) ==
    LET n == Max(Len(self.length), Len(energy))
        R_enter == transfer_map_enter(self)
        R_exit == transfer_map_exit(self)
        body == transfer_map_body(self, energy)
    IN  [i \in 1..n |->
            LET R == matmul(At(R_enter, i), matmul(body[i], At(R_exit, i)))
            IN  matmul(rotation_matrix(PNeg(At(self.tilt, i))),
                       matmul(R, rotation_matrix(At(self.tilt, i))))]

\* Dipole.transfer_map(energy)
transfer_map(self, energy) ==
    LET n == Max(Len(self.length), Len(energy))
        R_enter == transfer_map_enter(self)
        R_exit == transfer_map_exit(self)
        body == transfer_map_body(self, energy)
    IN  [i \in 1..n |->
            LET R == matmul(At(R_exit, i), matmul(body[i], At(R_enter, i)))
            IN  matmul(rotation_matrix(PNeg(At(self.tilt, i))),
                       matmul(R, rotation_matrix(At(self.tilt, i))))]

\* The keyword arguments Dipole.broadcast(shape), shape = (n,), gives to the
\* constructor.
broadcast_args(self, n) ==
    [length |-> repeat(self.length, n),
     angle |-> repeat(self.angle, n),
     k1 |-> repeat(self.k1, n),
     e1 |-> repeat(self.e1, n),
     e2 |-> repeat(self.e2, n),
     tilt |-> repeat(self.tilt, n),
     fringe_integral |-> repeat(self.fringe_integral, n),
     fringe_integral_exit |-> repeat(self.fringe_integral_exit, n),
     gap |-> repeat(self.gap, n),
     name |-> self.name,
     device |-> self.device,
     dtype |-> self.dtype]

\* Dipole.broadcast(shape), shape = (n,).  The result is the new element and
\* the name counter after the call.
broadcast(self, n, counter) == Dipole_init(broadcast_args(self, n), counter)

(***************************************************************************)
(* Beams.  A ParticleBeam holds, per batch slot, a sequence of particles   *)
(* (x, px, y, py, tau, delta, 1); a ParameterBeam holds, per batch slot,   *)
(* the mean vector mu and the covariance matrix cov.                       *)
(***************************************************************************)
Vec(x, px, y, py, tau, delta, one) ==
    Eager([i \in Idx |->
        CASE i = 0 -> x [] i = 1 -> px [] i = 2 -> y [] i = 3 -> py
          [] i = 4 -> tau [] i = 5 -> delta [] i = 6 -> one])

ParticleBeam(particles, energy, particle_charges, device, dtype) ==
    [kind |-> "ParticleBeam", particles |-> particles, mu |-> <<>>,
     cov |-> <<>>, energy |-> energy, particle_charges |-> particle_charges,
     device |-> device, dtype |-> dtype]

ParameterBeam(mu, cov, energy, device, dtype) ==
    [kind |-> "ParameterBeam", particles |-> <<>>, mu |-> mu, cov |-> cov,
     energy |-> energy, particle_charges |-> <<>>,
     device |-> device, dtype |-> dtype]

\* The batch size of a beam.
BeamBatch(beam) == Len(beam.energy)

\* No beam: what a call that raises returns.
NoBeam ==
    [kind |-> "None", particles |-> <<>>, mu |-> <<>>, cov |-> <<>>,
     energy |-> <<>>, particle_charges |-> <<>>, device |-> "", dtype |-> ""]

NoError == [type |-> "None", message |-> <<>>]

\* What a call of a method leaves behind: the element and the incoming beam
\* after the call, the value returned or the error raised, and the stages of
\* the integrator that ran, in order.
Returned(self, incoming, ret, stages) ==
    [self |-> self, incoming |-> incoming, ret |-> ret, raised |-> NoError,
     stages |-> stages]
Raised(self, incoming, type, message) ==
    [self |-> self, incoming |-> incoming, ret |-> NoBeam,
     raised |-> [type |-> type, message |-> message], stages |-> <<>>]

\* The beam transported by one transfer map per batch slot.
apply_transfer_map(tm, incoming) ==
    LET n == Len(tm)
    IN  IF incoming.kind = "ParameterBeam"
        THEN ParameterBeam(
                [i \in 1..n |-> matvec(tm[i], At(incoming.mu, i))],
                [i \in 1..n |->
                    matmul(tm[i], matmul(At(incoming.cov, i), transpose(tm[i])))],
                incoming.energy, incoming.device, incoming.dtype)
        ELSE ParticleBeam(
                [i \in 1..n |->
                    [j \in 1..Len(At(incoming.particles, i)) |->
                        matvec(tm[i], At(incoming.particles, i)[j])]],
                incoming.energy, incoming.particle_charges,
                incoming.device, incoming.dtype)

\* Element.track: the transfer map of the element applied to the beam.
Element_track(self, incoming) ==
    apply_transfer_map(transfer_map(self, incoming.energy), incoming)

\* Beam.broadcast(shape), shape = (n,): every batched field tiled n times.
Beam_broadcast(beam, n) ==
    [beam EXCEPT !.particles = repeat(beam.particles, n),
                 !.mu = repeat(beam.mu, n),
                 !.cov = repeat(beam.cov, n),
                 !.energy = repeat(beam.energy, n),
                 !.particle_charges = repeat(beam.particle_charges, n)]

(***************************************************************************)
(* The Bmad-X routines (cheetah.utils.bmadx), for one particle.            *)
(***************************************************************************)
\* bmadx.sinc(x) = sin(x) / x, 1 at 0
sinc(u) == IF u = Zero THEN One ELSE PDiv(Sin(u), u)

\* bmadx.cosc(x) = (1 - cos(x)) / x^2, 1/2 at 0
cosc(u) == IF u = Zero THEN Frac(1, 2) ELSE PDiv(PSub(One, Cos(u)), PSq(u))

\* The Bmad coordinates z and pz, given the reference momentum p0c.
bmad_z_pz(tau, delta, ref_energy, mc2, p0c) ==
    LET energy == PAdd(ref_energy, PMul(delta, p0c))
        p == Sqrt(PSub(PSq(energy), PSq(mc2)))
    IN  [z |-> PMul(PNeg(PDiv(p, energy)), tau),
         pz |-> PDiv(PSub(p, p0c), p0c),
         p0c |-> p0c]

\* bmadx.cheetah_to_bmad_z_pz(tau, delta, ref_energy, mc2)
cheetah_to_bmad_z_pz(tau, delta, ref_energy, mc2) ==
    bmad_z_pz(tau, delta, ref_energy, mc2,
              Sqrt(PSub(PSq(ref_energy), PSq(mc2))))

\* bmadx.bmad_to_cheetah_z_pz(z, pz, p0c, mc2)
bmad_to_cheetah_z_pz(z, pz, p0c, mc2) ==
    LET ref_energy == Sqrt(PAdd(PSq(p0c), PSq(mc2)))
        p == PMul(PAdd(One, pz), p0c)
        energy == Sqrt(PAdd(PSq(p), PSq(mc2)))
        beta == PDiv(p, energy)
    IN  [tau |-> PDiv(PNeg(z), beta),
         delta |-> PDiv(PSub(energy, ref_energy), p0c),
         ref_energy |-> ref_energy]

\* bmadx.offset_particle_set(x_offset, y_offset, tilt, x, px, y, py)
offset_particle_set(x_offset, y_offset, tilt, x, px, y, py) ==
    LET s == Sin(tilt)
        c == Cos(tilt)
        x_ele_int == PSub(x, x_offset)
        y_ele_int == PSub(y, y_offset)
    IN  [x |-> PAdd(PMul(x_ele_int, c), PMul(y_ele_int, s)),
         y |-> PAdd(PMul(PNeg(x_ele_int), s), PMul(y_ele_int, c)),
         px |-> PAdd(PMul(px, c), PMul(py, s)),
         py |-> PAdd(PMul(PNeg(px), s), PMul(py, c))]

\* bmadx.offset_particle_unset(x_offset, y_offset, tilt, x, px, y, py)
offset_particle_unset(x_offset, y_offset, tilt, x, px, y, py) ==
    LET s == Sin(tilt)
        c == Cos(tilt)
    IN  [x |-> PAdd(PSub(PMul(x, c), PMul(y, s)), x_offset),
         y |-> PAdd(PAdd(PMul(x, s), PMul(y, c)), y_offset),
         px |-> PSub(PMul(px, c), PMul(py, s)),
         py |-> PAdd(PMul(px, s), PMul(py, c))]

(***************************************************************************)
(* The Bmad-X tracking of the dipole, for one particle in batch slot i.    *)
(***************************************************************************)
\* A Python bool as a float factor.
BoolVal(b) == IF b THEN One ELSE Zero

\* A fringe kick that takes the values of the entrance face at both faces.
bmadx_fringe_linear_entrance_values(self, i, location, x, px, y, py, pz, p0c_particle) ==
    LET px1 == PDiv(PMul(px, p0c_particle), At(self.p0c, i))
        py1 == PDiv(PMul(py, p0c_particle), At(self.p0c, i))
        g == PDiv(At(self.angle, i), At(self.length, i))
        e == At(self.e1, i)
        f_int == At(self.fringe_integral, i)
        h_gap == PMul(Frac(1, 2), At(self.gap, i))
        hx_k == PMul(g, Tan(e))
        hy_k == PMul(PNeg(g),
                     Tan(PSub(e,
                         PDiv(PMul(PMul(PMul(PMul(Num(2), f_int), h_gap), g),
                                   PAdd(One, PSq(Sin(e)))),
                              Cos(e)))))
    IN  [px |-> PAdd(px1, PMul(x, hx_k)),
         py |-> PAdd(py1, PMul(y, hy_k))]

\* Dipole._bmadx_fringe_linear(location, x, px, y, py, pz, p0c_particle)
bmadx_fringe_linear(self, i, location, x, px, y, py, pz, p0c_particle) ==
    LET px1 == PDiv(PMul(px, p0c_particle), At(self.p0c, i))
        py1 == PDiv(PMul(py, p0c_particle), At(self.p0c, i))
        pz1 == PSub(PDiv(PMul(PAdd(pz, One), p0c_particle), At(self.p0c, i)), One)
        g == PDiv(At(self.angle, i), At(self.length, i))
        e == PAdd(PMul(At(self.e1, i), BoolVal(location = "entrance")),
                  PMul(At(self.e2, i), BoolVal(location = "exit")))
        f_int == PAdd(PMul(At(self.fringe_integral, i),
                           BoolVal(location = "entrance")),
                      PMul(At(self.fringe_integral_exit, i),
                           BoolVal(location = "exit")))
        h_gap == PMul(Frac(1, 2),
                      PAdd(PMul(At(self.gap, i), BoolVal(location = "entrance")),
                           PMul(At(self.gap_exit, i), BoolVal(location = "exit"))))
        hx_k == PMul(g, Tan(e))
        hy_k == PMul(PNeg(g),
                     Tan(PSub(e,
                         PDiv(PMul(PMul(PMul(PMul(Num(2), f_int), h_gap), g),
                                   PAdd(One, PSq(Sin(e)))),
                              Cos(e)))))
    IN  [px |-> PAdd(px1, PMul(x, hx_k)),
         py |-> PAdd(py1, PMul(y, hy_k))]

\* Dipole._bmadx_body, its last part: the outgoing coordinates.
bmadx_body_out(angle, length, p0c, mc2, y, z, py, pz, px_norm, phi1, x2, theta_p, Lc) ==
    LET Lp == PDiv(Lc, sinc(PDiv(theta_p, Num(2))))
        P == PMul(p0c, PAdd(One, pz))
        E == Sqrt(PAdd(PSq(P), PSq(mc2)))
        E0 == Sqrt(PAdd(PSq(p0c), PSq(mc2)))
        beta == PDiv(P, E)
        beta0 == PDiv(p0c, E0)
    IN  [x |-> x2,
         px |-> PMul(px_norm, Sin(PSub(PAdd(angle, phi1), theta_p))),
         y |-> PAdd(y, PDiv(PMul(py, Lp), px_norm)),
         py |-> py,
         z |-> PSub(PAdd(z, PDiv(PMul(beta, length), beta0)),
                    PDiv(PMul(PAdd(One, pz), Lp), px_norm)),
         pz |-> pz]

\* Dipole._bmadx_body, its third part: the chord of the path and the angle
\* theta_p it turns by.
bmadx_body_chord(angle, length, p0c, mc2, x, y, z, py, pz, px_norm, phi1, g, x2) ==
    LET Lcu == PSub(PSub(x2, PMul(PMul(PSq(length), g), cosc(angle))),
                    PMul(x, Cos(angle)))
        Lcv == PSub(PMul(PNeg(length), sinc(angle)), PMul(x, Sin(angle)))
    IN  bmadx_body_out(angle, length, p0c, mc2, y, z, py, pz, px_norm, phi1,
            x2,
            PMul(Num(2),
                 PSub(PSub(PAdd(angle, phi1), HalfPi), Arctan2(Lcv, Lcu))),
            Sqrt(PAdd(PSq(Lcu), PSq(Lcv))))

\* Dipole._bmadx_body, its second part: the outgoing position x2.
bmadx_body_x2(angle, length, p0c, mc2, x, y, z, py, pz, px_norm, phi1, g, gp) ==
    LET lsinc == PMul(PMul(PAdd(One, PMul(g, x)), length), sinc(angle))
        alpha == PSub(PMul(PMul(Num(2), Sin(PAdd(angle, phi1))), lsinc),
                      PMul(gp, PSq(lsinc)))
        x2_t1 == PAdd(PMul(x, Cos(angle)),
                      PMul(PMul(PSq(length), g), cosc(angle)))
        x2_t2 == Sqrt(PAdd(PSq(Cos(PAdd(angle, phi1))), PMul(gp, alpha)))
        x2_t3 == Cos(PAdd(angle, phi1))
        c1 == PAdd(x2_t1, PDiv(alpha, PAdd(x2_t2, x2_t3)))
        c2 == PAdd(x2_t1, PDiv(PSub(x2_t2, x2_t3), gp))
        temp == PAbs(PAdd(angle, phi1))
    IN  bmadx_body_chord(angle, length, p0c, mc2, x, y, z, py, pz, px_norm,
            phi1, g,
            PAdd(PMul(c1, Lt(temp, HalfPi)), PMul(c2, Ge(temp, HalfPi))))

\* Dipole._bmadx_body, its first part: the momenta in units of the p0c of
\* the element, then px_norm, phi1, g and gp.
bmadx_body_scaled(angle, length, p0c, mc2, x, y, z, px, py, pz) ==
    LET px_norm == Sqrt(PSub(PSq(PAdd(One, pz)), PSq(py)))
    IN  bmadx_body_x2(angle, length, p0c, mc2, x, y, z, py, pz, px_norm,
            Arcsin(PDiv(px, px_norm)), PDiv(angle, length),
            PDiv(PDiv(angle, length), px_norm))

\* Dipole._bmadx_body(x, px, y, py, z, pz, p0c_particle, mc2), in slot i
bmadx_body(self, i, x, px, y, py, z, pz, p0c_particle, mc2) ==
    bmadx_body_scaled(At(self.angle, i), At(self.length, i), At(self.p0c, i),
        mc2, x, y, z,
        PDiv(PMul(px, p0c_particle), At(self.p0c, i)),
        PDiv(PMul(py, p0c_particle), At(self.p0c, i)),
        PSub(PDiv(PMul(PAdd(pz, One), p0c_particle), At(self.p0c, i)), One))

(***************************************************************************)
(* Dipole._track_bmadx for one particle of batch slot i, step by step.  c  *)
(* holds the coordinates x, px, y, py, z, pz and p0c_particle.             *)
(***************************************************************************)
\* The Bmad coordinates of the particle v = (x, px, y, py, tau, delta, 1).
bmadx_enter(v, energy, mc2) ==
    LET b == cheetah_to_bmad_z_pz(v[4], v[5], energy, mc2)
    IN  [x |-> v[0], px |-> v[1], y |-> v[2], py |-> v[3],
         z |-> b.z, pz |-> b.pz, p0c_particle |-> b.p0c]

bmadx_offset_set(self, i, c) ==
    offset_particle_set(Zero, Zero, At(self.tilt, i), c.x, c.px, c.y, c.py)
        @@ c

\* A fringe kick whose result is dropped.
bmadx_fringe_dropped(self, i, location, c) == c

\* A fringe kick that hands on the pz it has rescaled.
bmadx_fringe_keeps_pz(self, i, location, c) ==
    [pz |-> PSub(PDiv(PMul(PAdd(c.pz, One), c.p0c_particle), At(self.p0c, i)),
                 One)]
        @@ bmadx_fringe_linear(self, i, location, c.x, c.px, c.y, c.py, c.pz,
                               c.p0c_particle) @@ c

\* px, py = self._bmadx_fringe_linear(location, x, px, y, py, pz, p0c_particle)
bmadx_fringe(self, i, location, c) ==
    bmadx_fringe_linear(self, i, location, c.x, c.px, c.y, c.py, c.pz,
                        c.p0c_particle) @@ c

bmadx_entrance(self, i, c) ==
    IF self.fringe_at = "entrance_end" \/ self.fringe_at = "both_ends"
    THEN bmadx_fringe(self, i, "entrance", c)
    ELSE c

bmadx_bend(self, i, c, mc2) ==
    bmadx_body(self, i, c.x, c.px, c.y, c.py, c.z, c.pz, c.p0c_particle, mc2)
        @@ c

bmadx_exit(self, i, c) ==
    IF self.fringe_at = "exit_end" \/ self.fringe_at = "both_ends"
    THEN bmadx_fringe(self, i, "exit", c)
    ELSE c

bmadx_offset_unset(self, i, c) ==
    offset_particle_unset(Zero, Zero, At(self.tilt, i), c.x, c.px, c.y, c.py)
        @@ c

\* The Cheetah coordinates again: the outgoing (x, px, y, py, tau, delta, 1)
\* and the new reference energy.
bmadx_leave(c, mc2) ==
    LET k == bmad_to_cheetah_z_pz(c.z, c.pz, c.p0c_particle, mc2)
    IN  [particle |-> Vec(c.x, c.px, c.y, c.py, k.tau, k.delta, One),
         ref_energy |-> k.ref_energy]

\* The tracking of a particle with the exit fringe kick before the body.
track_bmadx_particle_exit_first(self, i, v, energy) ==
    bmadx_leave(
        bmadx_offset_unset(self, i,
            bmadx_bend(self, i,
                bmadx_exit(self, i,
                    bmadx_entrance(self, i,
                        bmadx_offset_set(self, i,
                            bmadx_enter(v, energy, electron_mass_eV)))),
                electron_mass_eV)),
        electron_mass_eV)

\* Dipole._track_bmadx for one particle: the stages in the order of the code.
track_bmadx_particle(self, i, v, energy) ==
    bmadx_leave(
        bmadx_offset_unset(self, i,
            bmadx_exit(self, i,
                bmadx_bend(self, i,
                    bmadx_entrance(self, i,
                        bmadx_offset_set(self, i,
                            bmadx_enter(v, energy, electron_mass_eV))),
                    electron_mass_eV))),
        electron_mass_eV)

\* The stages of Dipole._track_bmadx, in the order they run.
track_bmadx_stages(self) ==
    <<"cheetah_to_bmad_z_pz", "offset_particle_set">>
    \o (IF self.fringe_at = "entrance_end" \/ self.fringe_at = "both_ends"
        THEN <<"fringe_entrance">> ELSE <<>>)
    \o <<"body">>
    \o (IF self.fringe_at = "exit_end" \/ self.fringe_at = "both_ends"
        THEN <<"fringe_exit">> ELSE <<>>)
    \o <<"offset_particle_unset", "bmad_to_cheetah_z_pz", "ParticleBeam">>

\* The outgoing beam built with the default precision and placement instead
\* of the incoming beam's.
bmadx_outgoing_beam_defaults(incoming, out) ==
    ParticleBeam(
        [i \in 1..Len(out) |-> [j \in 1..Len(out[i]) |-> out[i][j].particle]],
        [i \in 1..Len(out) |-> out[i][1].ref_energy],
        incoming.particle_charges, "cpu", "float32")

\* The outgoing beam of Dipole._track_bmadx, from the tracked particles.
bmadx_outgoing_beam(incoming, out) ==
    ParticleBeam(
        [i \in 1..Len(out) |-> [j \in 1..Len(out[i]) |-> out[i][j].particle]],
        [i \in 1..Len(out) |-> out[i][1].ref_energy],
        incoming.particle_charges, incoming.device, incoming.dtype)

\* Dipole._track_bmadx(incoming): the outgoing beam.
track_bmadx(self, incoming) ==
    bmadx_outgoing_beam(incoming,
        Eager([i \in 1..Max(Len(self.length), BeamBatch(incoming)) |->
                  [j \in 1..Len(At(incoming.particles, i)) |->
                      track_bmadx_particle(self, i, At(incoming.particles, i)[j],
                                           At(incoming.energy, i))]]))

\* A track that takes every method other than "bmadx" for the linear one.
track_lenient(self, incoming) ==
    IF self.tracking_method = "bmadx"
    THEN (IF incoming.kind # "ParticleBeam"
          THEN Raised(self, incoming, "AssertionError",
                      <<"Bmad-X tracking is currently only supported for ",
                        "ParticleBeam", ".">>)
          ELSE Returned(self, incoming, track_bmadx(self, incoming),
                        track_bmadx_stages(self)))
    ELSE Returned(self, incoming, Element_track(self, incoming), <<>>)

\* A track that tests the kind of the beam only after the conversion to
\* Bmad coordinates.
track_late_assert(self, incoming) ==
    IF self.tracking_method = "cheetah"
    THEN Returned(self, incoming, Element_track(self, incoming), <<>>)
    ELSE IF self.tracking_method = "bmadx"
    THEN (IF incoming.kind # "ParticleBeam"
          THEN [Raised(self, incoming, "AssertionError",
                       <<"Bmad-X tracking is currently only supported for ",
                         "ParticleBeam", ".">>)
                   EXCEPT !.stages = <<"cheetah_to_bmad_z_pz">>]
          ELSE Returned(self, incoming, track_bmadx(self, incoming),
                        track_bmadx_stages(self)))
    ELSE Raised(self, incoming, "ValueError",
                <<"Invalid tracking method ", self.tracking_method, ". ",
                  "Supported methods are '", "cheetah", "' and '", "bmadx",
                  "'.">>)

\* A track whose Bmad-X branch writes the outgoing coordinates into the
\* incoming beam.
track_in_place(self, incoming) ==
    IF self.tracking_method = "cheetah"
    THEN Returned(self, incoming, Element_track(self, incoming), <<>>)
    ELSE IF self.tracking_method = "bmadx"
    THEN (IF incoming.kind # "ParticleBeam"
          THEN Raised(self, incoming, "AssertionError",
                      <<"Bmad-X tracking is currently only supported for ",
                        "ParticleBeam", ".">>)
          ELSE Returned(self, track_bmadx(self, incoming),
                        track_bmadx(self, incoming), track_bmadx_stages(self)))
    ELSE Raised(self, incoming, "ValueError",
                <<"Invalid tracking method ", self.tracking_method, ". ",
                  "Supported methods are '", "cheetah", "' and '", "bmadx",
                  "'.">>)

\* Dipole.track(incoming).  The message of an error is the sequence of its
\* pieces; the quotes around ParticleBeam are left out.
track(self, incoming) ==
    IF self.tracking_method = "cheetah"
    THEN Returned(self, incoming, Element_track(self, incoming), <<>>)
    ELSE IF self.tracking_method = "bmadx"
    THEN (IF incoming.kind # "ParticleBeam"
          THEN Raised(self, incoming, "AssertionError",
                      <<"Bmad-X tracking is currently only supported for ",
                        "ParticleBeam", ".">>)
          ELSE Returned(self, incoming, track_bmadx(self, incoming),
                        track_bmadx_stages(self)))
    ELSE Raised(self, incoming, "ValueError",
                <<"Invalid tracking method ", self.tracking_method, ". ",
                  "Supported methods are '", "cheetah", "' and '", "bmadx",
                  "'.">>)

(***************************************************************************)
(* The legacy element library (src/joss/accelerator.py).  An element is a  *)
(* record of its class (kind), its name and the attributes its constructor *)
(* stores; energies are in units of the rest energy.  A name the library   *)
(* generates, "Drift_000003", is the pair of the class and the count.      *)
(***************************************************************************)
\* REST_ENERGY, the unit of energy of the model.
REST_ENERGY == One

\* Element.__init__(name): the given name, or one made from the class and
\* ELEMENT_COUNT; ELEMENT_COUNT is then incremented.  The argument name is
\* << >> for None and <<"HCOR">> for the name HCOR.
joss_Element_init(cls, name, count) ==
    [name |-> IF name # <<>> THEN name ELSE <<cls, count>>, count |-> count + 1]

\* Drift(length, energy, name): the new element and the count after it.
joss_Drift(length, energy, name, count) ==
    [self |-> [kind |-> "Drift", length |-> length, energy |-> energy,
               name |-> joss_Element_init("Drift", name, count).name],
     count |-> joss_Element_init("Drift", name, count).count]

\* Quadrupole(length, k1, energy, name)
joss_Quadrupole(length, k1, energy, name, count) ==
    [self |-> [kind |-> "Quadrupole", length |-> length, k1 |-> k1,
               energy |-> energy,
               name |-> joss_Element_init("Quadrupole", name, count).name],
     count |-> joss_Element_init("Quadrupole", name, count).count]

\* HorizontalCorrector(length, angle, name); the energy is not stored.
joss_HorizontalCorrector(length, angle, name, count) ==
    [self |-> [kind |-> "HorizontalCorrector", length |-> length,
               angle |-> angle,
               name |-> joss_Element_init("HorizontalCorrector", name,
                                          count).name],
     count |-> joss_Element_init("HorizontalCorrector", name, count).count]

\* VerticalCorrector(length, angle, name); the energy is not stored.
joss_VerticalCorrector(length, angle, name, count) ==
    [self |-> [kind |-> "VerticalCorrector", length |-> length,
               angle |-> angle,
               name |-> joss_Element_init("VerticalCorrector", name,
                                          count).name],
     count |-> joss_Element_init("VerticalCorrector", name, count).count]

\* igamma2 = 1 / gamma**2 if gamma != 0 else 0, gamma = energy / REST_ENERGY
joss_igamma2(energy) ==
    IF PDiv(energy, REST_ENERGY) # Zero
    THEN PDiv(One, PSq(PDiv(energy, REST_ENERGY)))
    ELSE Zero

\* Drift.transfer_map
joss_Drift_transfer_map(self) ==
    Eager([eye EXCEPT ![0][1] = self.length, ![2][3] = self.length,
                      ![4][5] = PMul(self.length, joss_igamma2(self.energy))])

\* Quadrupole.transfer_map: hx = 0, kx2 = k1 + hx**2, ky2 = -k1.
joss_Quadrupole_transfer_map(self) ==
    rmatrix_k(self.length, Zero, PAdd(self.k1, PSq(Zero)), PNeg(self.k1),
              joss_igamma2(self.energy))

\* HorizontalCorrector.transfer_map: the kick is on px.
joss_HorizontalCorrector_transfer_map(self) ==
    Eager([eye EXCEPT ![0][1] = self.length, ![1][6] = self.angle,
                      ![2][3] = self.length])

\* VerticalCorrector.transfer_map: the kick is on py.
joss_VerticalCorrector_transfer_map(self) ==
    Eager([eye EXCEPT ![0][1] = self.length, ![2][3] = self.length,
                      ![3][6] = self.angle])

\* element.transfer_map, by the class of the element.
joss_transfer_map(self) ==
    CASE self.kind = "Drift" -> joss_Drift_transfer_map(self)
      [] self.kind = "Quadrupole" -> joss_Quadrupole_transfer_map(self)
      [] self.kind = "HorizontalCorrector" ->
             joss_HorizontalCorrector_transfer_map(self)
      [] self.kind = "VerticalCorrector" ->
             joss_VerticalCorrector_transfer_map(self)

\* Segment.transfer_map of the elements: the product of their maps, the
\* first element applied first.
RECURSIVE Segment_transfer_map(_)
Segment_transfer_map(elements) ==
    IF elements = <<>> THEN eye
    ELSE matmul(joss_transfer_map(elements[Len(elements)]),
                Segment_transfer_map(SubSeq(elements, 1, Len(elements) - 1)))

\* min(a, b) of two numbers.
min(a, b) == IF IsPos(PSub(a, b)) THEN b ELSE a

\* The loop condition remaining > 0.
Positive(p) == IsPos(p)

\* A piece of a drift as long as the resolution, whatever remains.
Drift_split_element_whole(self, resolution, remaining, count) ==
    joss_Drift(resolution, self.energy, <<>>, count)

\* Drift.split, the element of one pass of the loop.
Drift_split_element(self, resolution, remaining, count) ==
    joss_Drift(min(resolution, remaining), self.energy, <<>>, count)

\* Quadrupole.split, the element of one pass of the loop.
Quadrupole_split_element(self, resolution, remaining, count) ==
    joss_Quadrupole(min(resolution, remaining), self.k1, self.energy, <<>>,
                    count)

\* HorizontalCorrector.split, the element of one pass of the loop.
HorizontalCorrector_split_element(self, resolution, remaining, count) ==
    joss_HorizontalCorrector(
        min(resolution, remaining),
        PDiv(PMul(self.angle, min(resolution, remaining)), self.length),
        <<>>, count)

\* VerticalCorrector.split, the element of one pass of the loop: the code
\* constructs a HorizontalCorrector.
VerticalCorrector_split_element(self, resolution, remaining, count) ==
    joss_HorizontalCorrector(
        min(resolution, remaining),
        PDiv(PMul(self.angle, min(resolution, remaining)), self.length),
        <<>>, count)

\* The element of one pass of the loop of element.split(resolution), by the
\* class of the element.
split_element(self, resolution, remaining, count) ==
    CASE self.kind = "Drift" ->
             Drift_split_element(self, resolution, remaining, count)
      [] self.kind = "Quadrupole" ->
             Quadrupole_split_element(self, resolution, remaining, count)
      [] self.kind = "HorizontalCorrector" ->
             HorizontalCorrector_split_element(self, resolution, remaining,
                                               count)
      [] self.kind = "VerticalCorrector" ->
             VerticalCorrector_split_element(self, resolution, remaining,
                                             count)

(***************************************************************************)
(* The inputs of the model.  Energies are in units of the rest energy, so  *)
(* that a beam of energy 5/4 has momentum 3/4 and one of 5/3 has 4/3.      *)
(***************************************************************************)
\* The largest n of broadcast((n,)).
MaxBroadcast == 2

\* The largest number of assignments to fields in one run.
MaxAssign == 1

\* A tensor of one slot.
T(v) == <<v>>

\* Keyword arguments of the linear dipoles of one slot.
LinearArgs ==
    {[length |-> T(l), angle |-> T(a), k1 |-> T(k), tilt |-> T(t)] :
        l \in {Zero, One}, a \in {Zero, One}, k \in {Zero, One},
        t \in {Zero, HalfPi}}

\* Keyword arguments of the dipoles with pole faces and fringe fields.
FringeArgs ==
    {[length |-> T(One), angle |-> T(a), k1 |-> T(k), e1 |-> T(Frac(1, 2)),
      e2 |-> T(Frac(1, 3)), fringe_integral |-> T(Frac(1, 2)),
      fringe_integral_exit |-> T(Frac(1, 3)), gap |-> T(One),
      gap_exit |-> T(Num(2)), name |-> "B1"] :
        a \in {Zero, One}, k \in {Zero, One}}

\* Keyword arguments of the dipoles of two slots.
BatchArgs ==
    {[length |-> l, angle |-> a] :
        l \in {<<Zero, Zero>>, <<Zero, One>>, <<One, One>>, <<One, Num(2)>>},
        a \in {<<One, One>>, <<Zero, One>>}}

\* Keyword arguments that choose the tracking method and the fringe ends.
MethodArgs ==
    {[length |-> T(One), angle |-> T(One), p0c |-> T(Frac(3, 4)),
      e1 |-> T(Frac(1, 2)), fringe_integral |-> T(Frac(1, 2)), gap |-> T(One),
      tracking_method |-> m, fringe_at |-> f] :
        m \in {"cheetah", "bmadx", "linear"},
        f \in {"both_ends", "entrance_end", "exit_end", "no_end"}}
    \cup {[length |-> <<One, One>>, angle |-> <<One, Num(2)>>,
           p0c |-> <<Frac(3, 4), Frac(3, 4)>>, tracking_method |-> "bmadx",
           fringe_at |-> "no_end"],
          [length |-> T(One), angle |-> T(One), tracking_method |-> "bmadx"]}
    \cup {[length |-> T(One), p0c |-> T(Frac(3, 4)),
            tracking_method |-> "bmadx", fringe_at |-> "no_end"]}
    \cup {[length |-> T(One), angle |-> T(One), p0c |-> T(Frac(4, 3)),
            fringe_integral |-> T(Frac(1, 2)), gap |-> T(One),
            tracking_method |-> "bmadx", fringe_at |-> f] :
              f \in {"both_ends", "no_end"}}

\* Keyword arguments of a tilted dipole with pole faces and fringe fields.
TiltedArgs ==
    {[length |-> T(One), angle |-> T(One), e1 |-> T(Frac(1, 2)),
      e2 |-> T(Frac(1, 3)), tilt |-> T(HalfPi),
      fringe_integral |-> T(Frac(1, 2)), gap |-> T(One)]}

ConstructorArgs ==
    LinearArgs \cup FringeArgs \cup BatchArgs \cup MethodArgs \cup TiltedArgs

\* The incoming beams, each of one batch slot.
Cov0 == Eager([eye EXCEPT ![6][6] = Zero])
Beams ==
    {ParticleBeam(<< <<Vec(One, Zero, One, Zero, One, Zero, One),
                       Vec(Zero, Frac(1, 2), Zero, Zero, Zero, Frac(5, 9), One)>> >>,
                  T(Frac(5, 4)), << <<One, Num(2)>> >>, "cpu", "float32"),
     ParticleBeam(<< <<Vec(Zero, Zero, Zero, Zero, Zero, Zero, One),
                       Vec(One, Zero, Zero, Zero, Zero, Zero, One)>> >>,
                  T(Frac(5, 3)), << <<One, One>> >>, "cuda", "float64"),
     ParameterBeam(<<Vec(One, Zero, Zero, Frac(1, 2), Zero, Zero, One)>>,
                   <<Cov0>>, T(Frac(5, 4)), "cpu", "float32")}

\* The assignments to fields between calls: the angle is switched on and
\* the focusing is switched off.
Assignments == {[field |-> "angle", value |-> One], [field |-> "k1", value |-> Zero]}

\* The reference energies transfer_map is asked for.
Energies == {T(Frac(5, 4)), T(Frac(5, 3))}

(***************************************************************************)
(* The state: the dipole, the instance broadcast() last returned (none at  *)
(* first), the counter of the name generator, the assignments made so far  *)
(* to fields of the dipole, and the last call made with what it was given  *)
(* and what it left behind.                                                *)
(***************************************************************************)
VARIABLES dipole, broadcasted, name_counter, written, last

(***************************************************************************)
(* The state of the legacy library: the element split is called on, the    *)
(* resolution it is called with, the locals remaining and split_elements   *)
(* of the loop, where the call is (pc), and the global ELEMENT_COUNT.      *)
(***************************************************************************)
VARIABLES element, resolution, remaining, split_elements, pc, ELEMENT_COUNT

cheetah == <<dipole, broadcasted, name_counter, written, last>>
legacy == <<element, resolution, remaining, split_elements, pc, ELEMENT_COUNT>>
vars == <<dipole, broadcasted, name_counter, written, last, element,
          resolution, remaining, split_elements, pc, ELEMENT_COUNT>>

\* No element of the legacy library was made and split is not called.
LegacyUnused ==
    /\ element = "None"
    /\ resolution = Zero
    /\ remaining = Zero
    /\ split_elements = <<>>
    /\ pc = "unused"
    /\ ELEMENT_COUNT = 0

\* The record of no call; a call overrides the fields it concerns.
Idle(self) ==
    [op |-> "none", target |-> "dipole", before |-> self, after |-> self,
     incoming |-> NoBeam, incoming_after |-> NoBeam, ret |-> NoBeam,
     raised |-> NoError, stages |-> <<>>, map |-> <<>>, body |-> <<>>,
     energy |-> <<>>, value |-> <<>>, instance |-> <<>>, n |-> 0,
     args |-> <<>>, field |-> ""]

Init ==
    \E args \in ConstructorArgs :
        LET made == Dipole_init(args, 0)
        IN  /\ dipole = made.self
            /\ name_counter = made.counter
            /\ broadcasted = <<>>
            /\ written = <<>>
            /\ last = [Idle(made.self) EXCEPT !.op = "init", !.args = <<args>>]
            /\ LegacyUnused

\* The element a call is made on.
Targets == {"dipole", "broadcasted"}
Target(t) == IF t = "dipole" THEN dipole ELSE broadcasted[1].instance

\* The element that a call on target t leaves behind.
Keep(t, self) ==
    IF t = "dipole"
    THEN /\ dipole' = self
         /\ UNCHANGED broadcasted
    ELSE /\ broadcasted' = [broadcasted EXCEPT ![1].instance = self]
         /\ UNCHANGED dipole

\* The record of a call of track and the element it leaves behind.
Tracked(t, self, incoming, r) ==
    /\ last' = [Idle(self) EXCEPT
                   !.op = "track", !.target = t, !.after = r.self,
                   !.incoming = incoming, !.incoming_after = r.incoming,
                   !.ret = r.ret, !.raised = r.raised, !.stages = r.stages]
    /\ Keep(t, r.self)

\* target.track(beam.broadcast((m,)))
Track(t, beam, m) ==
    /\ last.op = "none"
    /\ t = "broadcasted" => broadcasted # <<>>
    /\ m \in {1, Len(Target(t).length)}
    /\ Tracked(t, Target(t), Beam_broadcast(beam, m),
               track(Target(t), Beam_broadcast(beam, m)))
    /\ UNCHANGED <<name_counter, written>>
    /\ UNCHANGED legacy

\* target.transfer_map(energy)
TransferMap(t, energy) ==
    /\ last.op = "none"
    /\ t = "broadcasted" => broadcasted # <<>>
    /\ LET self == Target(t)
       IN  last' = [Idle(self) EXCEPT
                       !.op = "transfer_map", !.target = t,
                       !.energy = energy, !.map = transfer_map(self, energy),
                       !.body = transfer_map_body(self, energy)]
    /\ UNCHANGED <<dipole, broadcasted, name_counter, written>>
    /\ UNCHANGED legacy

\* target.hx
ReadHx(t) ==
    /\ last.op = "none"
    /\ t = "broadcasted" => broadcasted # <<>>
    /\ LET self == Target(t)
       IN  last' = [Idle(self) EXCEPT
                       !.op = "hx", !.target = t, !.value = hx(self)]
    /\ UNCHANGED <<dipole, broadcasted, name_counter, written>>
    /\ UNCHANGED legacy

\* The record of a call of broadcast and the instance it returns.
Broadcasted(n, made) ==
    /\ broadcasted' = <<[instance |-> made.self, of |-> dipole, n |-> n]>>
    /\ name_counter' = made.counter
    /\ last' = [Idle(dipole) EXCEPT
                   !.op = "broadcast", !.instance = <<made.self>>, !.n = n,
                   !.args = <<broadcast_args(dipole, n)>>]
    /\ UNCHANGED <<dipole, written>>
    /\ UNCHANGED legacy

\* dipole.field = value, as the tests assign dipole.angle and dipole.k1: the
\* value has the batch shape of the element and is not the one the field
\* has.
Assign(field, v) ==
    /\ last.op = "none"
    /\ Len(written) < MaxAssign
    /\ LET value == [i \in 1..Len(dipole.length) |-> v]
       IN  /\ dipole[field] # value
           /\ written' = Append(written,
                   [field |-> field, old |-> dipole[field], value |-> value])
           /\ last' = [Idle(dipole) EXCEPT
                          !.op = "assign", !.field = field, !.value = value,
                          !.after = setattr(dipole, field, value)]
           /\ dipole' = setattr(dipole, field, value)
    /\ UNCHANGED <<broadcasted, name_counter>>
    /\ UNCHANGED legacy

\* dipole.broadcast((n,))
Broadcast(n) ==
    /\ last.op = "none"
    /\ Broadcasted(n, broadcast(dipole, n, name_counter))

\* The caller takes the result of the last call and goes on.
Resume ==
    /\ last.op # "none"
    /\ last' = Idle(dipole)
    /\ UNCHANGED <<dipole, broadcasted, name_counter, written>>
    /\ UNCHANGED legacy

Next ==
    \/ \E t \in Targets, beam \in Beams, m \in 1..(2 * MaxBroadcast) :
          Track(t, beam, m)
    \/ \E t \in Targets, energy \in Energies : TransferMap(t, energy)
    \/ \E t \in Targets : ReadHx(t)
    \/ \E n \in 1..MaxBroadcast : Broadcast(n)
    \/ \E a \in Assignments : Assign(a.field, a.value)
    \/ Resume

Spec == Init /\ [][Next]_vars

(***************************************************************************)
(* element.split(resolution) of the legacy library, one pass of its loop   *)
(* at a time.                                                              *)
(***************************************************************************)
\* The elements split is called on.
SplitLengths == {Zero, Frac(1, 2), Frac(3, 2), Num(2)}
LegacyElements ==
    {joss_Drift(l, Frac(5, 4), <<>>, 0) : l \in SplitLengths}
    \cup {joss_Quadrupole(l, One, Frac(5, 4), <<>>, 0) : l \in SplitLengths}
    \cup {joss_HorizontalCorrector(l, One, <<"HCOR">>, 0) : l \in SplitLengths}
    \cup {joss_VerticalCorrector(l, One, <<>>, 0) : l \in SplitLengths}

\* The resolutions split is called with.
Resolutions == {Frac(1, 2), Frac(3, 4), One, Zero, PNeg(One)}

\* The largest number of passes of the loop that are followed.
MaxPieces == 4

\* The element was constructed; split has not been called, and what will
\* be its argument and its locals holds 0 and [].
SplitInit ==
    /\ \E made \in LegacyElements :
          /\ element = made.self
          /\ ELEMENT_COUNT = made.count
    /\ resolution = Zero
    /\ remaining = Zero
    /\ split_elements = <<>>
    /\ pc = "idle"
    /\ dipole = "None"
    /\ broadcasted = <<>>
    /\ name_counter = 0
    /\ written = <<>>
    /\ last = "None"

\* element.split(res) is called: split_elements = [], remaining = self.length
SplitCall(res) ==
    /\ pc = "idle"
    /\ resolution' = res
    /\ split_elements' = <<>>
    /\ remaining' = element.length
    /\ pc' = "loop"
    /\ UNCHANGED <<element, ELEMENT_COUNT>>
    /\ UNCHANGED cheetah

\* One pass of the loop, while remaining > 0: the element is constructed
\* and appended, remaining -= resolution.
SplitStep ==
    /\ pc = "loop"
    /\ Positive(remaining)
    /\ Len(split_elements) < MaxPieces
    /\ split_elements' =
           Append(split_elements,
                  split_element(element, resolution, remaining,
                                ELEMENT_COUNT).self)
    /\ ELEMENT_COUNT' =
           split_element(element, resolution, remaining, ELEMENT_COUNT).count
    /\ remaining' = PSub(remaining, resolution)
    /\ UNCHANGED <<element, resolution, pc>>
    /\ UNCHANGED cheetah

\* The loop is left and split_elements is returned.
SplitReturn ==
    /\ pc = "loop"
    /\ ~Positive(remaining)
    /\ pc' = "done"
    /\ UNCHANGED <<element, resolution, remaining, split_elements,
                   ELEMENT_COUNT>>
    /\ UNCHANGED cheetah

SplitNext ==
    \/ \E res \in Resolutions : SplitCall(res)
    \/ SplitStep
    \/ SplitReturn

\* A pass of the loop, seen on ELEMENT_COUNT: every pass constructs one
\* element.
LoopPass ==
    /\ pc = "loop"
    /\ Positive(remaining)
    /\ Len(split_elements) < MaxPieces
    /\ ELEMENT_COUNT' = ELEMENT_COUNT + 1

\* The call runs on: while the loop condition holds a pass is taken, and
\* when it fails the call returns.
SplitSpec ==
    SplitInit /\ [][SplitNext]_vars
        /\ WF_ELEMENT_COUNT(LoopPass) /\ WF_vars(SplitReturn)

(***************************************************************************)
(* What the properties below speak of.                                     *)
(***************************************************************************)
\* The array fields of the element.
ArrayFields ==
    {"length", "p0c", "angle", "k1", "e1", "e2", "tilt", "gap", "gap_exit",
     "fringe_integral", "fringe_integral_exit"}

\* The element of one slot that holds the parameters of slot i of self.
SlotElement(self, i) ==
    [f \in DOMAIN self |->
        IF f \in ArrayFields THEN <<At(self[f], i)>> ELSE self[f]]

\* The beam of one slot that holds slot k of a beam (no beam stays none).
BeamSlice(beam, k) ==
    [f \in DOMAIN beam |->
        IF f \in {"particles", "mu", "cov", "energy", "particle_charges"}
           /\ beam[f] # <<>>
        THEN <<At(beam[f], k)>>
        ELSE beam[f]]

\* The number of slots of the result of a call with an element and a beam.
Slots(self, incoming) == 1..Max(Len(self.length), BeamBatch(incoming))

\* The error message names the word w.
Names(message, w) == \E k \in DOMAIN message : message[k] = w

\* Slot i of the element is switched off: no bend, no focusing, no pole-face
\* angles and no fringe terms.
IsOff(self, i) ==
    /\ At(self.angle, i) = Zero /\ At(self.k1, i) = Zero
    /\ At(self.e1, i) = Zero /\ At(self.e2, i) = Zero
    /\ At(self.gap, i) = Zero /\ At(self.gap_exit, i) = Zero
    /\ At(self.fringe_integral, i) = Zero
    /\ At(self.fringe_integral_exit, i) = Zero

\* The keyword arguments that construct an element with the fields of self.
FieldsOf(self) ==
    [f \in (DOMAIN self) \ {"name"} |-> self[f]] @@ [name |-> self.name]

\* The element freshly constructed from the current fields of self.
Fresh(self) == Dipole_init(FieldsOf(self), 0).self

\* The value last assigned to a field of the dipole is v (nothing was
\* assigned to it later).
LastWritten(field, v) ==
    \E k \in DOMAIN written :
        /\ written[k].field = field
        /\ written[k].value = v
        /\ \A j \in DOMAIN written : j > k => written[j].field # field

\* The element with the fringe fields at the other choice of ends, between
\* both ends and no end.
OtherEnds(self) ==
    [self EXCEPT !.fringe_at = IF @ = "no_end" THEN "both_ends" ELSE "no_end"]

\* The gap and the fringe integral of the element are positive in every slot.
FringePositive(self) ==
    \A i \in 1..Len(self.length) :
        IsPos(self.gap[i]) /\ IsPos(self.fringe_integral[i])

\* The kick (x * hx, y * hy) that the entrance fringe gives the particle v of
\* batch slot i: what it adds to the momenta of a particle on the axis.
EntranceKick(self, i, v, energy) ==
    LET c == bmadx_offset_set(self, i, bmadx_enter(v, energy, electron_mass_eV))
        k == bmadx_fringe_linear(self, i, "entrance", c.x, c.px, c.y, c.py,
                                 c.pz, c.p0c_particle)
        k0 == bmadx_fringe_linear(self, i, "entrance", Zero, c.px, Zero, c.py,
                                  c.pz, c.p0c_particle)
    IN  <<PSub(k.px, k0.px), PSub(k.py, k0.py)>>

\* Some particle of the beam gets a non-zero kick at the entrance.
KickedAtEntrance(self, incoming) ==
    \E i \in Slots(self, incoming) :
        \E j \in 1..Len(At(incoming.particles, i)) :
            EntranceKick(self, i, At(incoming.particles, i)[j],
                         At(incoming.energy, i)) # <<Zero, Zero>>

\* The linear fringe map of a face with curvature h, face angle e, gap g and
\* fringe integral f: the identity except M[1,0] = h * tan(e) and
\* M[3,2] = -h * tan(e - phi), phi = f * h * g * sec(e) * (1 + sin(e)^2).
FringeMap(h, e, g, f) ==
    LET phi == PMul(PMul(PMul(PMul(f, h), g), PDiv(One, Cos(e))),
                    PAdd(One, PSq(Sin(e))))
    IN  [eye EXCEPT ![1][0] = PMul(h, Tan(e)),
                    ![3][2] = PNeg(PMul(h, Tan(PSub(e, phi))))]

\* The entrance kick runs, and the exit kick runs, for this fringe_at.
EntranceKickRuns(self) == self.fringe_at \in {"entrance_end", "both_ends"}
ExitKickRuns(self) == self.fringe_at \in {"exit_end", "both_ends"}

\* The coordinates of a particle after the stages up to the entrance kick,
\* with the tilt rotation taken with zero offsets.
AfterEntrance(self, i, c) ==
    IF EntranceKickRuns(self)
    THEN bmadx_fringe_linear(self, i, "entrance", c.x, c.px, c.y, c.py, c.pz,
                             c.p0c_particle) @@ c
    ELSE c

\* The coordinates after the exit kick, where it runs.
AfterExit(self, i, c) ==
    IF ExitKickRuns(self)
    THEN bmadx_fringe_linear(self, i, "exit", c.x, c.px, c.y, c.py, c.pz,
                             c.p0c_particle) @@ c
    ELSE c

\* The rotation into the tilted frame and back, with zero offsets.
Tilted(self, i, c) ==
    offset_particle_set(Zero, Zero, At(self.tilt, i), c.x, c.px, c.y, c.py) @@ c
Untilted(self, i, c) ==
    offset_particle_unset(Zero, Zero, At(self.tilt, i), c.x, c.px, c.y, c.py)
        @@ c

\* The particle v of batch slot i after all stages in the order of the claim.
InStageOrder(self, i, v, energy) ==
    bmadx_leave(
        Untilted(self, i,
            AfterExit(self, i,
                bmadx_bend(self, i,
                    AfterEntrance(self, i,
                        Tilted(self, i,
                            bmadx_enter(v, energy, electron_mass_eV))),
                    electron_mass_eV))),
        electron_mass_eV).particle

\* The two branch values of the exit position x2 of the body map and the
\* mask |angle + phi1| < pi/2 that selects between them.
X2Branches(angle, length, x, phi1, g, gp) ==
    LET lsinc == PMul(PMul(PAdd(One, PMul(g, x)), length), sinc(angle))
        alpha == PSub(PMul(PMul(Num(2), Sin(PAdd(angle, phi1))), lsinc),
                      PMul(gp, PSq(lsinc)))
        x2_t1 == PAdd(PMul(x, Cos(angle)),
                      PMul(PMul(PSq(length), g), cosc(angle)))
        x2_t2 == Sqrt(PAdd(PSq(Cos(PAdd(angle, phi1))), PMul(gp, alpha)))
        x2_t3 == Cos(PAdd(angle, phi1))
    IN  [A |-> PAdd(x2_t1, PDiv(alpha, PAdd(x2_t2, x2_t3))),
         B |-> PAdd(x2_t1, PDiv(PSub(x2_t2, x2_t3), gp)),
         mask |-> Lt(PAbs(PAdd(angle, phi1)), HalfPi)]

\* The branches for a particle with the momenta px, py, pz in units of the
\* p0c of the element.
X2BranchesScaled(angle, length, x, px, px_norm) ==
    X2Branches(angle, length, x, Arcsin(PDiv(px, px_norm)),
               PDiv(angle, length), PDiv(PDiv(angle, length), px_norm))

\* The branches for the particle with coordinates c that enters the body of
\* batch slot i.
X2BranchesOf(self, i, c) ==
    X2BranchesScaled(At(self.angle, i), At(self.length, i), c.x,
        PDiv(PMul(c.px, c.p0c_particle), At(self.p0c, i)),
        Sqrt(PSub(PSq(PDiv(PMul(PAdd(c.pz, One), c.p0c_particle),
                           At(self.p0c, i))),
                  PSq(PDiv(PMul(c.py, c.p0c_particle), At(self.p0c, i))))))

\* The coordinates with which the particle v of slot i enters the body.
EntersBody(self, i, v, energy) ==
    bmadx_entrance(self, i,
        bmadx_offset_set(self, i, bmadx_enter(v, energy, electron_mass_eV)))

\* The kick strengths (hx, hy) of a face with curvature g, face angle e, gap
\* and fringe integral f.
KickStrengths(g, e, gap, f) ==
    <<PMul(g, Tan(e)),
      PNeg(PMul(g, Tan(PSub(e,
          PDiv(PMul(PMul(PMul(PMul(Num(2), f), PMul(Frac(1, 2), gap)), g),
                    PAdd(One, PSq(Sin(e)))),
               Cos(e))))))>>

\* The kick strengths of the entrance face and of the exit face of slot i.
FaceStrengths(self, i, location) ==
    IF location = "entrance"
    THEN KickStrengths(PDiv(At(self.angle, i), At(self.length, i)),
                       At(self.e1, i), At(self.gap, i),
                       At(self.fringe_integral, i))
    ELSE KickStrengths(PDiv(At(self.angle, i), At(self.length, i)),
                       At(self.e2, i), At(self.gap_exit, i),
                       At(self.fringe_integral_exit, i))

\* The kick stage of a face took the coordinates c and handed on k: px and
\* py are kicked on the rescaled momenta, the rest is as it entered.
KickOnly(self, i, location, c, k) ==
    /\ k.x = c.x /\ k.y = c.y /\ k.z = c.z /\ k.pz = c.pz
    /\ k.p0c_particle = c.p0c_particle
    /\ k.px = PAdd(PDiv(PMul(c.px, c.p0c_particle), At(self.p0c, i)),
                   PMul(c.x, FaceStrengths(self, i, location)[1]))
    /\ k.py = PAdd(PDiv(PMul(c.py, c.p0c_particle), At(self.p0c, i)),
                   PMul(c.y, FaceStrengths(self, i, location)[2]))

\* The coordinates with which the particle v of slot i reaches the entrance
\* face, and those with which it leaves the body.
ReachesEntrance(self, i, v, energy) ==
    bmadx_offset_set(self, i, bmadx_enter(v, energy, electron_mass_eV))
LeavesBody(self, i, v, energy) ==
    bmadx_bend(self, i, EntersBody(self, i, v, energy), electron_mass_eV)

\* The ratio p0c_particle / p0c of the particle with coordinates c in slot i,
\* and a momentum q and a longitudinal pz rescaled by the ratio r.
RescaleRatio(self, i, c) == PDiv(c.p0c_particle, At(self.p0c, i))
Rescaled(q, r) == PMul(q, r)
RescaledPz(pz, r) == PSub(PMul(PAdd(pz, One), r), One)

\* The coordinates c with the momenta in units of the p0c of the element.
InUnitsOfP0c(self, i, c) ==
    [c EXCEPT !.px = Rescaled(c.px, RescaleRatio(self, i, c)),
              !.py = Rescaled(c.py, RescaleRatio(self, i, c)),
              !.pz = RescaledPz(c.pz, RescaleRatio(self, i, c)),
              !.p0c_particle = At(self.p0c, i)]

\* The kick y * hy that a face adds to py where it runs; nothing where not.
PyKick(self, i, location, y) ==
    IF (location = "entrance" /\ EntranceKickRuns(self))
       \/ (location = "exit" /\ ExitKickRuns(self))
    THEN PMul(y, FaceStrengths(self, i, location)[2])
    ELSE Zero

\* The pz along the stages: c0 reaches the entrance face, a enters the body,
\* b leaves it, e leaves the exit face and delta leaves the element.  The
\* ratio r is applied once, in the body.
PzRescaledOnce(c0, a, b, e, r, delta) ==
    /\ a.pz = c0.pz
    /\ b.pz = RescaledPz(c0.pz, r)
    /\ e.pz = b.pz
    /\ delta = bmad_to_cheetah_z_pz(e.z, RescaledPz(c0.pz, r),
                                    c0.p0c_particle, electron_mass_eV).delta

\* The transverse momenta along the stages: every stage that runs multiplies
\* the px and py it is given by r once, the kicks add x * hx and y * hy.
MomentaRescaledPerStage(self, i, c0, a, b, e, r) ==
    /\ EntranceKickRuns(self) =>
          /\ a.px = PAdd(Rescaled(c0.px, r),
                         PMul(c0.x, FaceStrengths(self, i, "entrance")[1]))
          /\ a.py = PAdd(Rescaled(c0.py, r),
                         PMul(c0.y, FaceStrengths(self, i, "entrance")[2]))
    /\ ~EntranceKickRuns(self) => (a.px = c0.px /\ a.py = c0.py)
    /\ b.py = Rescaled(a.py, r)
    /\ b = [bmadx_bend(self, i, InUnitsOfP0c(self, i, a), electron_mass_eV)
               EXCEPT !.p0c_particle = a.p0c_particle]
    /\ ExitKickRuns(self) =>
          /\ e.px = PAdd(Rescaled(b.px, r),
                         PMul(b.x, FaceStrengths(self, i, "exit")[1]))
          /\ e.py = PAdd(Rescaled(b.py, r),
                         PMul(b.y, FaceStrengths(self, i, "exit")[2]))
    /\ ~ExitKickRuns(self) => (e.px = b.px /\ e.py = b.py)

\* The py that leaves the last stage: the incoming py times r, once for the
\* body and once for every face that runs, and the kicks.
PyRescaledCount(self, i, c0, b, e, r) ==
    e.py = PAdd(PAdd(PMul(c0.py,
                         PMul(r, PMul(IF EntranceKickRuns(self) THEN r ELSE One,
                                      IF ExitKickRuns(self) THEN r ELSE One))),
                     PMul(PyKick(self, i, "entrance", c0.y),
                          PMul(r, IF ExitKickRuns(self) THEN r ELSE One))),
                PyKick(self, i, "exit", b.y))

\* With p0c_particle = p0c no stage changes a momentum by rescaling.
RescalingIsIdentity(self, i, c0, a, b, e) ==
    /\ b.pz = c0.pz
    /\ b.py = a.py
    /\ InUnitsOfP0c(self, i, a) = a
    /\ EntranceKickRuns(self) =>
          /\ a.px = PAdd(c0.px, PMul(c0.x, FaceStrengths(self, i, "entrance")[1]))
          /\ a.py = PAdd(c0.py, PMul(c0.y, FaceStrengths(self, i, "entrance")[2]))
    /\ ExitKickRuns(self) =>
          /\ e.px = PAdd(b.px, PMul(b.x, FaceStrengths(self, i, "exit")[1]))
          /\ e.py = PAdd(b.py, PMul(b.y, FaceStrengths(self, i, "exit")[2]))

\* The rescaling of the momenta of the particle v of slot i, stage by stage.
RescaledAlong(self, i, v, energy, out) ==
    /\ PzRescaledOnce(ReachesEntrance(self, i, v, energy),
                      EntersBody(self, i, v, energy),
                      LeavesBody(self, i, v, energy),
                      bmadx_exit(self, i, LeavesBody(self, i, v, energy)),
                      RescaleRatio(self, i, ReachesEntrance(self, i, v, energy)),
                      out[5])
    /\ MomentaRescaledPerStage(self, i,
                      ReachesEntrance(self, i, v, energy),
                      EntersBody(self, i, v, energy),
                      LeavesBody(self, i, v, energy),
                      bmadx_exit(self, i, LeavesBody(self, i, v, energy)),
                      RescaleRatio(self, i, ReachesEntrance(self, i, v, energy)))
    /\ PyRescaledCount(self, i,
                      ReachesEntrance(self, i, v, energy),
                      LeavesBody(self, i, v, energy),
                      bmadx_exit(self, i, LeavesBody(self, i, v, energy)),
                      RescaleRatio(self, i, ReachesEntrance(self, i, v, energy)))
    /\ ReachesEntrance(self, i, v, energy).p0c_particle = At(self.p0c, i) =>
          RescalingIsIdentity(self, i,
                      ReachesEntrance(self, i, v, energy),
                      EntersBody(self, i, v, energy),
                      LeavesBody(self, i, v, energy),
                      bmadx_exit(self, i, LeavesBody(self, i, v, energy)))

\* The sum of the attribute f of the elements.
RECURSIVE SumOf(_, _)
SumOf(elements, f) ==
    IF elements = <<>> THEN Zero
    ELSE PAdd(SumOf(SubSeq(elements, 1, Len(elements) - 1), f),
              elements[Len(elements)][f])

\* The element is a corrector.
IsCorrector(self) == self.kind \in {"HorizontalCorrector", "VerticalCorrector"}

\* split was called with a positive resolution on an element of positive
\* length; with a resolution that is not positive on such an element.
SplitCalledPositive ==
    pc \in {"loop", "done"} /\ IsPos(element.length) /\ IsPos(resolution)
SplitCalledNonPositive ==
    pc \in {"loop", "done"} /\ IsPos(element.length) /\ ~IsPos(resolution)

\* What split returns: pieces of a length in (0, resolution] whose lengths
\* sum to the length of the element and, of a corrector, whose angles sum
\* to its angle.
SplitResult ==
    (SplitCalledPositive /\ pc = "done") =>
        /\ \A k \in DOMAIN split_elements :
               /\ IsPos(split_elements[k].length)
               /\ ~IsPos(PSub(split_elements[k].length, resolution))
        /\ SumOf(split_elements, "length") = element.length
        /\ IsCorrector(element) =>
               SumOf(split_elements, "angle") = element.angle

\* With a resolution that is not positive the loop condition stays true:
\* remaining never falls below the length, and the call does not return.
SplitNeverReturns ==
    SplitCalledNonPositive =>
        /\ pc = "loop"
        /\ Positive(remaining)
        /\ ~IsPos(PSub(element.length, remaining))
        /\ \A k \in DOMAIN split_elements :
               ~IsPos(split_elements[k].length)

\* The values of fringe_at.
FringeEnds == {"both_ends", "entrance_end", "exit_end", "no_end"}

(***************************************************************************)
(* The properties.                                                         *)
(***************************************************************************)
\* C1: track dispatches on tracking_method: "cheetah" returns what the
\* transfer-map path returns, "bmadx" (on a particle beam) what the particle
\* integrator returns after running its stages, and any other value raises a
\* ValueError whose message names the invalid value, "cheetah" and "bmadx";
\* then no beam is returned and the element and the incoming beam are as
\* before.
TrackDispatches ==
    last.op = "track" =>
        /\ last.before.tracking_method = "cheetah" =>
              /\ last.raised = NoError
              /\ last.stages = <<>>
              /\ last.ret = Element_track(last.before, last.incoming)
        /\ (last.before.tracking_method = "bmadx"
                /\ last.incoming.kind = "ParticleBeam") =>
              /\ last.raised = NoError
              /\ last.stages = track_bmadx_stages(last.before)
              /\ Names(last.stages, "body")
              /\ last.ret = track_bmadx(last.before, last.incoming)
        /\ last.before.tracking_method \notin {"cheetah", "bmadx"} =>
              /\ last.raised.type = "ValueError"
              /\ Names(last.raised.message, last.before.tracking_method)
              /\ Names(last.raised.message, "cheetah")
              /\ Names(last.raised.message, "bmadx")
              /\ last.ret = NoBeam
              /\ last.after = last.before
              /\ last.incoming_after = last.incoming

\* A call of track on an element with an unknown method has raised.
TrackDispatchesWitness ==
    /\ last.op = "track"
    /\ last.before.tracking_method = "linear"
    /\ last.raised.type = "ValueError"
    /\ last.incoming.kind = "ParticleBeam"

\* C2: with tracking_method "bmadx" and an incoming beam that is no particle
\* beam, track raises an AssertionError before any stage of the integrator
\* has run, returns no beam and leaves the element and the incoming beam as
\* they were.
NonParticleBeamRejected ==
    (last.op = "track" /\ last.before.tracking_method = "bmadx"
        /\ last.incoming.kind # "ParticleBeam") =>
        /\ last.raised.type = "AssertionError"
        /\ last.stages = <<>>
        /\ last.ret = NoBeam
        /\ last.after = last.before
        /\ last.incoming_after = last.incoming

\* A parameter beam was given to a Bmad-X dipole, and the call has raised.
NonParticleBeamRejectedWitness ==
    /\ last.op = "track"
    /\ last.before.tracking_method = "bmadx"
    /\ last.incoming.kind = "ParameterBeam"
    /\ last.raised.type = "AssertionError"

\* C3: the broadcasting law: a beam broadcast to the shape of
\* dipole.broadcast((n,)) and tracked through it gives, in each slot, what
\* tracking that slot's slice of the beam through the original dipole gives
\* (the same beam, or the same error).
BroadcastingLaw ==
    (last.op = "track" /\ last.target = "broadcasted"
        /\ BeamBatch(last.incoming) = Len(last.before.length)) =>
        \A k \in 1..Len(last.before.length) :
            /\ track(broadcasted[1].of, BeamSlice(last.incoming, k)).raised
                   = last.raised
            /\ BeamSlice(
                   track(broadcasted[1].of, BeamSlice(last.incoming, k)).ret,
                   ((k - 1) % Len(broadcasted[1].of.length)) + 1)
                   = BeamSlice(last.ret, k)

\* C4: the instance broadcast returns has the fringe_at, fringe_type,
\* tracking_method and name of the original.
BroadcastKeepsConfiguration ==
    last.op = "broadcast" =>
        /\ last.instance[1].fringe_at = last.before.fringe_at
        /\ last.instance[1].fringe_type = last.before.fringe_type
        /\ last.instance[1].tracking_method = last.before.tracking_method
        /\ last.instance[1].name = last.before.name

\* C5: in the instance broadcast((n,)) returns, every array field is the
\* original's field replicated: every slot holds the corresponding value of
\* the original, all fields have the one batch shape, and the original is as
\* before.
BroadcastReplicatesArrays ==
    last.op = "broadcast" =>
        /\ \A f \in ArrayFields :
              /\ Len(last.instance[1][f]) = last.n * Len(last.before.length)
              /\ \A k \in DOMAIN last.instance[1][f] :
                    last.instance[1][f][k]
                        = last.before[f][((k - 1) % Len(last.before[f])) + 1]
        /\ last.after = last.before
        /\ dipole = last.before

\* C6: the result of batch slot i depends on the parameters and the incoming
\* slice of slot i only: the linear map of slot i, and the outgoing beam of
\* slot i, are those of the element of one slot that holds slot i's
\* parameters.
SlotsIndependent ==
    /\ last.op = "transfer_map" =>
          \A i \in DOMAIN last.map :
              last.map[i]
                  = transfer_map(SlotElement(last.before, i),
                                 <<At(last.energy, i)>>)[1]
    /\ (last.op = "track" /\ last.raised = NoError) =>
          \A i \in Slots(last.before, last.incoming) :
              BeamSlice(last.ret, i)
                  = BeamSlice(track(SlotElement(last.before, i),
                                    BeamSlice(last.incoming, i)).ret, 1)

\* C7: where angle, k1, e1, e2, the gaps and the fringe integrals are all
\* zero, the linear transfer map is the drift matrix of the same length, and
\* linear tracking is the transport by the drift matrices.
SwitchedOffIsDrift ==
    /\ last.op = "transfer_map" =>
          \A i \in DOMAIN last.map :
              IsOff(last.before, i) =>
                  last.map[i] = Drift_transfer_map(At(last.before.length, i),
                                                   At(last.energy, i))
    /\ (last.op = "track" /\ last.before.tracking_method = "cheetah"
           /\ \A i \in Slots(last.before, last.incoming) :
                  IsOff(last.before, i)) =>
          last.ret = apply_transfer_map(
                         [i \in Slots(last.before, last.incoming) |->
                             Drift_transfer_map(At(last.before.length, i),
                                                At(last.incoming.energy, i))],
                         last.incoming)

\* The map of a tilted, switched-off dipole of non-zero length was built.
SwitchedOffIsDriftWitness ==
    /\ last.op = "transfer_map"
    /\ IsOff(last.before, 1)
    /\ last.before.length[1] = One
    /\ last.before.tilt[1] = HalfPi
    /\ last.map[1][0][1] = One
    /\ last.map[1][4][5] # Zero

\* C8, as stated: where angle = 0 and k1 # 0, whatever e1, e2, tilt, gap and
\* the fringe integrals are, the linear transfer map is the matrix of the
\* quadrupole of the same length, k1 and energy.
FocusingIsQuadrupole ==
    last.op = "transfer_map" =>
        \A i \in DOMAIN last.map :
            (At(last.before.angle, i) = Zero /\ At(last.before.k1, i) # Zero) =>
                last.map[i]
                    = Quadrupole_transfer_map(At(last.before.length, i),
                                              At(last.before.k1, i),
                                              At(last.energy, i))

\* C8, amended: where angle = 0, k1 # 0 and tilt = 0, whatever e1, e2, gap
\* and the fringe integrals are, the linear transfer map is the matrix of
\* the quadrupole of the same length, k1 and energy.
UntiltedFocusingIsQuadrupole ==
    last.op = "transfer_map" =>
        \A i \in DOMAIN last.map :
            (At(last.before.angle, i) = Zero /\ At(last.before.k1, i) # Zero
                /\ At(last.before.tilt, i) = Zero) =>
                last.map[i]
                    = Quadrupole_transfer_map(At(last.before.length, i),
                                              At(last.before.k1, i),
                                              At(last.energy, i))

\* The map of an untilted focusing dipole with pole-face angles, gaps and
\* fringe integrals was built.
UntiltedFocusingIsQuadrupoleWitness ==
    /\ last.op = "transfer_map"
    /\ last.before.angle[1] = Zero
    /\ last.before.k1[1] = One
    /\ last.before.length[1] = One
    /\ last.before.tilt[1] = Zero
    /\ last.before.e1[1] # Zero
    /\ last.before.gap[1] # Zero
    /\ last.map[1][1][0] # Zero

\* C9: hx is angle / length in every slot of non-zero length and 0 in every
\* slot of zero length, never a non-finite value, and reading it leaves the
\* element (its angle and length among the rest) as it was.
HxGuarded ==
    last.op = "hx" =>
        /\ Len(last.value) = Len(last.before.length)
        /\ \A i \in DOMAIN last.value :
              /\ last.before.length[i] # Zero =>
                    last.value[i] = PDiv(last.before.angle[i],
                                         last.before.length[i])
              /\ last.before.length[i] = Zero => last.value[i] = Zero
              /\ ~IsNaN(last.value[i])
        /\ last.after = last.before
        /\ Target(last.target) = last.before

\* hx was read of an element with a slot of zero length and non-zero angle.
HxGuardedWitness ==
    /\ last.op = "hx"
    /\ \E i \in DOMAIN last.value :
          /\ last.before.length[i] = Zero
          /\ last.before.angle[i] = One
          /\ last.value[i] = Zero
          /\ last.after.angle[i] = One

\* C10: a beam returned by Bmad-X tracking has 1 as the seventh coordinate
\* of every particle, the particle charges of the incoming beam, as many
\* particles, and the dtype and device of the incoming beam.
BmadxBeamWellFormed ==
    (last.op = "track" /\ last.before.tracking_method = "bmadx"
        /\ last.raised = NoError) =>
        /\ last.ret.kind = "ParticleBeam"
        /\ \A i \in DOMAIN last.ret.particles :
              /\ Len(last.ret.particles[i])
                     = Len(At(last.incoming.particles, i))
              /\ \A j \in DOMAIN last.ret.particles[i] :
                    last.ret.particles[i][j][6] = One
        /\ last.ret.particle_charges = last.incoming.particle_charges
        /\ last.ret.dtype = last.incoming.dtype
        /\ last.ret.device = last.incoming.device

\* Bmad-X tracking has returned a beam of two particles in double precision
\* on another device.
BmadxBeamWellFormedWitness ==
    /\ last.op = "track"
    /\ last.before.tracking_method = "bmadx"
    /\ last.ret.kind = "ParticleBeam"
    /\ last.incoming.dtype = "float64"
    /\ last.incoming.device = "cuda"
    /\ Len(last.ret.particles[1]) = 2

SideEffectFree ==
    /\ last.op \in {"track", "transfer_map"} =>
          /\ last.after = last.before
          /\ Target(last.target) = last.before
          /\ last.incoming_after = last.incoming
    /\ last.op = "broadcast" =>
          /\ last.after = last.before
          /\ dipole = last.before

\* Bmad-X tracking has returned a beam that is not the incoming one.
SideEffectFreeWitness ==
    /\ last.op = "track"
    /\ last.before.tracking_method = "bmadx"
    /\ last.ret.kind = "ParticleBeam"
    /\ last.ret.particles # last.incoming.particles
    /\ last.incoming_after.particles = last.incoming.particles

\* C13: a constructed dipole has gap_exit equal to gap where gap_exit is not
\* given, and fringe_integral_exit equal to fringe_integral where
\* fringe_integral_exit is not given; an exit value that is given is stored
\* as given, whatever the entrance value is.
ExitDefaultsToEntrance ==
    last.op \in {"init", "broadcast"} =>
        LET args == last.args[1]
            made == IF last.op = "init" THEN last.before ELSE last.instance[1]
        IN  /\ made.gap = Opt(args, "gap", zeros_like(args.length))
            /\ made.fringe_integral
                   = Opt(args, "fringe_integral", zeros_like(args.length))
            /\ "gap_exit" \notin DOMAIN args => made.gap_exit = made.gap
            /\ "gap_exit" \in DOMAIN args => made.gap_exit = args.gap_exit
            /\ "fringe_integral_exit" \notin DOMAIN args =>
                   made.fringe_integral_exit = made.fringe_integral
            /\ "fringe_integral_exit" \in DOMAIN args =>
                   made.fringe_integral_exit = args.fringe_integral_exit

\* A dipole was constructed with a gap and a fringe integral and without exit
\* values.
ExitDefaultsToEntranceWitness ==
    /\ last.op = "init"
    /\ "gap_exit" \notin DOMAIN last.args[1]
    /\ "fringe_integral_exit" \notin DOMAIN last.args[1]
    /\ {"gap", "fringe_integral"} \subseteq DOMAIN last.args[1]
    /\ last.args[1].gap = <<One>>
    /\ last.args[1].fringe_integral = <<Frac(1, 2)>>
    /\ dipole.gap_exit = <<One>>
    /\ dipole.fringe_integral_exit = <<Frac(1, 2)>>

FringeMapsOfTheirFace ==
    last.op = "transfer_map" =>
        \A i \in 1..Len(last.before.length) :
            /\ transfer_map_enter(last.before)[i]
                   = FringeMap(hx(last.before)[i], last.before.e1[i],
                               last.before.gap[i],
                               last.before.fringe_integral[i])
            /\ transfer_map_exit(last.before)[i]
                   = FringeMap(hx(last.before)[i], last.before.e2[i],
                               last.before.gap_exit[i],
                               last.before.fringe_integral_exit[i])

\* C16: the linear map acts on a beam vector as Rot(tilt), the entrance
\* fringe map, the body map, the exit fringe map and Rot(-tilt), in this
\* order; the body routine is called with tilt 0, so that the tilt is
\* applied once.
MapInTraversalOrder ==
    last.op = "transfer_map" =>
        \A i \in DOMAIN last.map :
            /\ (\E j \in DOMAIN last.before.length :
                    last.before.length[j] # Zero) =>
                  last.body[i]
                      = base_rmatrix(At(last.before.length, i),
                                     At(last.before.k1, i),
                                     At(hx(last.before), i), Zero,
                                     At(last.energy, i))
            /\ \A k \in Idx :
                  matvec(last.map[i], eye[k])
                      = matvec(rotation_matrix(PNeg(At(last.before.tilt, i))),
                          matvec(At(transfer_map_exit(last.before), i),
                            matvec(last.body[i],
                              matvec(At(transfer_map_enter(last.before), i),
                                matvec(rotation_matrix(At(last.before.tilt, i)),
                                       eye[k])))))

\* The map of a tilted dipole was built whose fringe maps do not commute with
\* its body map.
MapInTraversalOrderWitness ==
    /\ last.op = "transfer_map"
    /\ last.before.tilt = <<HalfPi>>
    /\ last.before.angle = <<One>>
    /\ matmul(transfer_map_exit(last.before)[1],
              matmul(last.body[1], transfer_map_enter(last.before)[1]))
           # matmul(transfer_map_enter(last.before)[1],
                    matmul(last.body[1], transfer_map_exit(last.before)[1]))

\* C17: the body map is that of the shared linear-optics routine if and
\* only if some batch slot has a length other than 0; if the length is 0 in
\* every slot, the body map of each slot is the identity except
\* R[0,1] = length, R[2,3] = length and R[2,6] = angle of that slot.
BodyMapSelected ==
    last.op = "transfer_map" =>
        \A i \in DOMAIN last.body :
            IF \E j \in DOMAIN last.before.length : last.before.length[j] # Zero
            THEN last.body[i]
                     = base_rmatrix(At(last.before.length, i),
                                    At(last.before.k1, i),
                                    At(hx(last.before), i), Zero,
                                    At(last.energy, i))
            ELSE \A r \in Idx, c \in Idx :
                     last.body[i][r][c]
                         = CASE r = 0 /\ c = 1 -> At(last.before.length, i)
                             [] r = 2 /\ c = 3 -> At(last.before.length, i)
                             [] r = 2 /\ c = 6 -> At(last.before.angle, i)
                             [] OTHER -> IF r = c THEN One ELSE Zero

\* The body maps of a dipole of two slots with the length 0 in both slots
\* and a kick angle were built.
BodyMapSelectedWitness ==
    /\ last.op = "transfer_map"
    /\ last.before.length = <<Zero, Zero>>
    /\ last.before.angle = <<One, One>>
    /\ last.body[1][2][6] = One
    /\ last.body[2][2][6] = One

\* C18: in every Bmad-X tracking call the stages run in the order:
\* conversion to Bmad coordinates, tilt rotation with zero offsets, entrance
\* kick, body, exit kick, inverse tilt rotation with the same tilt and zero
\* offsets, conversion back, beam assembly.  The body runs exactly once, the
\* entrance kick runs iff fringe_at is entrance_end or both_ends, the exit
\* kick iff it is exit_end or both_ends.
BmadxStagesInOrder ==
    (last.op = "track" /\ last.before.tracking_method = "bmadx"
        /\ last.raised = NoError) =>
        /\ last.stages
               = <<"cheetah_to_bmad_z_pz", "offset_particle_set">>
                   \o (IF EntranceKickRuns(last.before)
                       THEN <<"fringe_entrance">> ELSE <<>>)
                   \o <<"body">>
                   \o (IF ExitKickRuns(last.before)
                       THEN <<"fringe_exit">> ELSE <<>>)
                   \o <<"offset_particle_unset", "bmad_to_cheetah_z_pz",
                        "ParticleBeam">>
        /\ Cardinality({k \in DOMAIN last.stages : last.stages[k] = "body"}) = 1
        /\ \A i \in Slots(last.before, last.incoming) :
              \A j \in 1..Len(At(last.incoming.particles, i)) :
                  last.ret.particles[i][j]
                      = InStageOrder(last.before, i,
                                     At(last.incoming.particles, i)[j],
                                     At(last.incoming.energy, i))

\* A beam was tracked through a Bmad-X dipole with the fringe field at the
\* exit only, and the exit kick changed the outcome.
BmadxStagesInOrderWitness ==
    /\ last.op = "track"
    /\ last.before.tracking_method = "bmadx"
    /\ last.before.fringe_at = "exit_end"
    /\ last.raised = NoError
    /\ last.stages = <<"cheetah_to_bmad_z_pz", "offset_particle_set", "body",
                       "fringe_exit", "offset_particle_unset",
                       "bmad_to_cheetah_z_pz", "ParticleBeam">>
    /\ last.ret # track([last.before EXCEPT !.fringe_at = "no_end"],
                        last.incoming).ret

\* C19: for every particle the exit position x2 of the body map is the
\* value of branch A where |angle + phi1| < pi/2 and the value of branch B
\* otherwise; the value of the branch that is not selected, a non-finite
\* one included, has no influence on x2.
X2OfSelectedBranch ==
    (last.op = "track" /\ last.before.tracking_method = "bmadx"
        /\ last.raised = NoError) =>
        \A i \in Slots(last.before, last.incoming) :
            \A j \in 1..Len(At(last.incoming.particles, i)) :
                LET c == EntersBody(last.before, i,
                                    At(last.incoming.particles, i)[j],
                                    At(last.incoming.energy, i))
                    br == X2BranchesOf(last.before, i, c)
                IN  /\ br.mask = One =>
                          bmadx_bend(last.before, i, c, electron_mass_eV).x
                              = br.A
                    /\ br.mask = Zero =>
                          bmadx_bend(last.before, i, c, electron_mass_eV).x
                              = br.B

MomentumRescaling ==
    (last.op = "track" /\ last.before.tracking_method = "bmadx"
        /\ last.raised = NoError) =>
        \A i \in Slots(last.before, last.incoming) :
            \A j \in 1..Len(At(last.incoming.particles, i)) :
                RescaledAlong(last.before, i,
                              At(last.incoming.particles, i)[j],
                              At(last.incoming.energy, i),
                              last.ret.particles[i][j])

\* A particle was tracked through a Bmad-X dipole with the kicks at both
\* faces whose p0c is not the momentum of the beam, and every stage changed
\* its py.
MomentumRescalingWitness ==
    /\ last.op = "track"
    /\ last.before.tracking_method = "bmadx"
    /\ last.before.fringe_at = "both_ends"
    /\ last.raised = NoError
    /\ Len(last.before.length) = 1
    /\ LET c0 == ReachesEntrance(last.before, 1, last.incoming.particles[1][1],
                                 last.incoming.energy[1])
           a == EntersBody(last.before, 1, last.incoming.particles[1][1],
                           last.incoming.energy[1])
           b == LeavesBody(last.before, 1, last.incoming.particles[1][1],
                           last.incoming.energy[1])
       IN  /\ c0.p0c_particle # last.before.p0c[1]
           /\ ~IsNaN(a.py) /\ a.py # Zero
           /\ b.py # a.py
           /\ b.pz # c0.pz
           /\ ~IsNaN(last.ret.particles[1][1][5])
           /\ ~IsNaN(last.ret.particles[1][1][3])

\* C23: in the legacy library, split(resolution) of a Drift, Quadrupole,
\* HorizontalCorrector or VerticalCorrector of a length > 0 with a
\* resolution > 0 terminates and returns pieces each of a length in
\* (0, resolution] whose lengths sum to the length of the element (for the
\* correctors, whose angles sum to its angle); with a resolution <= 0 and a
\* length > 0 the loop never terminates.
SplitTerminates ==
    /\ []SplitResult
    /\ []SplitNeverReturns
    /\ (SplitCalledPositive ~> pc = "done")

\* split has returned two pieces of a horizontal corrector of length 3/2,
\* the last one shorter than the resolution.
SplitTerminatesWitness ==
    /\ pc = "done"
    /\ element.kind = "HorizontalCorrector"
    /\ element.length = Frac(3, 2)
    /\ IsPos(resolution)
    /\ Len(split_elements) = 2
    /\ split_elements[2].length = Frac(1, 2)
    /\ split_elements[2].length # resolution
    /\ split_elements[2].angle = Frac(1, 3)

\* C24: in the legacy library, split keeps the kind of the element and its
\* physics: every piece of an element of kind K is of kind K, and the map
\* composed of the maps of the pieces kicks the same plane as the map of the
\* element (the pieces of a VerticalCorrector kick py).
SplitKeepsKind ==
    (SplitCalledPositive /\ pc = "done") =>
        /\ \A k \in DOMAIN split_elements :
               split_elements[k].kind = element.kind
        /\ Segment_transfer_map(split_elements)[1][6]
               = joss_transfer_map(element)[1][6]
        /\ Segment_transfer_map(split_elements)[3][6]
               = joss_transfer_map(element)[3][6]

====
